---- MODULE Spec2Model ----
(***************************************************************************)
(* Model of fers: the AES-GCM cipher (pkg/crypto), the object store        *)
(* contract (pkg/storage) and the FileManager engine (pkg/dir) that        *)
(* encrypts, uploads, downloads and reconciles a working directory with a  *)
(* remote key/value store.                                                 *)
(*                                                                         *)
(* Paths are sequences of segments: the Go string "d/b" is <<"d","b">>,    *)
(* "../o/f" is <<"..","o","f">> and the absolute "/o/f" is <<"","o","f">>  *)
(* when it is used as a key (strings.Split(s, "/")).  An absolute, cleaned *)
(* path of the local file system is the sequence of its segments from the  *)
(* root, <<>> being "/".                                                   *)
(***************************************************************************)
EXTENDS Integers, Sequences, FiniteSets, TLC

(***************************************************************************)
(* Bounds of the model.                                                    *)
(***************************************************************************)
\* nonces drawn by rand.Reader are numbered 0..MaxNonce
MaxNonce == 1
\* plaintexts of the cipher specification: bytes 0..MaxPlainByte and 255,
\* at most MaxPlainLen of them
MaxPlainByte == 0
MaxPlainLen == 2
\* cipher instances built in one behaviour of the cipher specification
MaxCiphers == 2

(***************************************************************************)
(* Program constants.                                                      *)
(***************************************************************************)
NonceSize == 12
TagSize == 16
KeySize == 32
ByteMod == 256

(***************************************************************************)
(* Sequence helpers.                                                       *)
(***************************************************************************)
RECURSIVE SumWeighted(_, _)
\* sum of (2i+1) * s[i] for i in 1..n : every weight is odd
SumWeighted(s, n) ==
    IF n = 0 THEN 0 ELSE (2 * n + 1) * s[n] + SumWeighted(s, n - 1)

RECURSIVE Xor(_, _)
\* bitwise exclusive or of two naturals
Xor(a, b) ==
    IF a = 0 THEN b
    ELSE IF b = 0 THEN a
    ELSE ((a + b) % 2) + 2 * Xor(a \div 2, b \div 2)

Front(s) == SubSeq(s, 1, Len(s) - 1)
Last(s) == s[Len(s)]

(***************************************************************************)
(* pkg/crypto: AES-256-GCM under key = sha256(passphrase).                 *)
(* The primitives of the Go standard library are modelled by a keyed       *)
(* stream cipher with an authentication tag: the keystream depends on key, *)
(* nonce and position; the odd bytes of the tag depend on the key, so a    *)
(* tag made under one key never authenticates under another, and the even  *)
(* bytes on the nonce and every ciphertext byte (odd weights, so one       *)
(* changed byte always changes the tag).                                   *)
(***************************************************************************)
\* passphrases, as byte strings
PassA == <<116, 101>>
PassB == <<116, 102>>
Passphrases == {PassA, PassB}

\* a digest that is the same for every passphrase
DigestIgnoringInput(pass) == [j \in 1..KeySize |-> (7 * j) % ByteMod]

\* sha256.Sum256: a fixed 32-byte digest of the passphrase
Sum256(pass) ==
    LET h == (SumWeighted(pass, Len(pass)) + 31 * Len(pass)) % ByteMod
    IN  [j \in 1..KeySize |-> (h + 7 * j) % ByteMod]

\* NewAESGCM(password): the cipher instance is its key
NewAESGCM(password) == [key |-> Sum256(password)]

\* rand.Reader filling a nonce: the n-th possible outcome
NonceOf(n) == [i \in 1..NonceSize |-> (n * 17 + i) % ByteMod]
Nonces == {NonceOf(n) : n \in 0..MaxNonce}

Keystream(key, nonce, i) ==
    (key[((i - 1) % KeySize) + 1] + 3 * nonce[((i - 1) % NonceSize) + 1] + i) % ByteMod

AuthTag(key, nonce, ct) ==
    LET sum == SumWeighted(nonce, NonceSize) + SumWeighted(ct, Len(ct)) + 29 * Len(ct)
    IN  [j \in 1..TagSize |->
            IF j % 2 = 1 THEN (key[j] + j) % ByteMod ELSE (sum + j) % ByteMod]

\* a Seal that returns the ciphertext with no tag behind it
SealWithoutTag(key, nonce, plain) ==
    [i \in 1..Len(plain) |-> Xor(plain[i], Keystream(key, nonce, i))]

\* gcm.Seal(nil, nonce, plain, nil) = ciphertext || tag
Seal(key, nonce, plain) ==
    LET ct == [i \in 1..Len(plain) |-> Xor(plain[i], Keystream(key, nonce, i))]
    IN  ct \o AuthTag(key, nonce, ct)

\* an Open that strips the tag without comparing it
OpenWithoutTagCheck(key, nonce, sealed) ==
    IF Len(sealed) < TagSize
    THEN [ok |-> FALSE, data |-> <<>>]
    ELSE [ok |-> TRUE,
          data |-> [i \in 1..(Len(sealed) - TagSize) |->
                      Xor(sealed[i], Keystream(key, nonce, i))]]

\* gcm.Open(nil, nonce, ct, nil): error unless the tag authenticates
Open(key, nonce, sealed) ==
    IF Len(sealed) < TagSize
    THEN [ok |-> FALSE, data |-> <<>>]
    ELSE LET n  == Len(sealed) - TagSize
             ct == SubSeq(sealed, 1, n)
             tg == SubSeq(sealed, n + 1, Len(sealed))
         IN  IF tg = AuthTag(key, nonce, ct)
             THEN [ok |-> TRUE,
                   data |-> [i \in 1..n |-> Xor(ct[i], Keystream(key, nonce, i))]]
             ELSE [ok |-> FALSE, data |-> <<>>]

\* Encrypt returning the sealed bytes without the nonce in front
EncryptWithoutNonce(ag, nonce, plain) == Seal(ag.key, nonce, plain)

\* aesGCM.Encrypt with the nonce rand.Reader produced: nonce || ciphertext || tag
Encrypt(ag, nonce, plain) == nonce \o Seal(ag.key, nonce, plain)

\* aesGCM.Decrypt
Decrypt(ag, cipherData) ==
    IF Len(cipherData) < NonceSize
    THEN [ok |-> FALSE, data |-> <<>>]
    ELSE Open(ag.key, SubSeq(cipherData, 1, NonceSize),
              SubSeq(cipherData, NonceSize + 1, Len(cipherData)))

(***************************************************************************)
(* Path functions of path/filepath (Unix separators).                      *)
(***************************************************************************)
\* segment names of the model, in byte order (the order os.ReadDir and
\* filepath.Walk list a directory in)
NameOrder == <<"", ".", "..", "..x", ".h", "a", "ab", "b", "c", "d", "f", "o", "t", "w">>

Rank(name) == CHOOSE i \in 1..Len(NameOrder) : NameOrder[i] = name

\* strings.HasPrefix(name, "..") and strings.HasPrefix(name, ".")
HasPrefixDotDot(name) == name \in {"..", "..x"}
HasPrefixDot(name) == name \in {".", "..", "..x", ".h"}

RECURSIVE CleanOnto(_, _)
\* filepath.Clean of a rooted path: stack holds the cleaned prefix
CleanOnto(stack, segs) ==
    IF segs = <<>> THEN stack
    ELSE LET s == Head(segs)
         IN  IF s = "" \/ s = "." THEN CleanOnto(stack, Tail(segs))
             ELSE IF s = ".."
                  THEN CleanOnto(IF stack = <<>> THEN <<>> ELSE Front(stack), Tail(segs))
                  ELSE CleanOnto(Append(stack, s), Tail(segs))

\* filepath.Clean of an absolute path
Clean(abs) == CleanOnto(<<>>, abs)

\* filepath.Join(base, rel) for an absolute base: Clean(base + "/" + rel)
Join(base, rel) == Clean(base \o rel)

\* filepath.Dir of a cleaned absolute path ("/" is its own parent)
Dir(abs) == IF abs = <<>> THEN <<>> ELSE Front(abs)

RECURSIVE CommonLen(_, _)
CommonLen(a, b) ==
    IF a = <<>> \/ b = <<>> \/ Head(a) # Head(b) THEN 0
    ELSE 1 + CommonLen(Tail(a), Tail(b))

\* filepath.Rel(base, targ) for absolute paths: ".." for every segment of
\* base below the common prefix, then the rest of targ; "." when equal
Rel(base, targ) ==
    LET b == Clean(base)
        t == Clean(targ)
        n == CommonLen(b, t)
        r == [i \in 1..(Len(b) - n) |-> ".."] \o SubSeq(t, n + 1, Len(t))
    IN  IF r = <<>> THEN <<".">> ELSE r

\* filepath.ToSlash: the separator is already "/" between segments
ToSlash(rel) == rel

(***************************************************************************)
(* The local file system: a function from the absolute paths that exist to *)
(* their node.                                                             *)
(***************************************************************************)
DirNode == [isDir |-> TRUE, data |-> <<>>]
FileNode(d) == [isDir |-> FALSE, data |-> d]

IsDir(f, p) == p \in DOMAIN f /\ f[p].isDir
IsFile(f, p) == p \in DOMAIN f /\ ~f[p].isDir

\* f with path p set to node n
Put(f, p, n) == [q \in DOMAIN f \cup {p} |-> IF q = p THEN n ELSE f[q]]
\* f without path p
Drop(f, p) == [q \in DOMAIN f \ {p} |-> f[q]]

Children(f, p) == {q \in DOMAIN f : Len(q) = Len(p) + 1 /\ SubSeq(q, 1, Len(p)) = p}

RECURSIVE SortByName(_)
\* the paths of a set, ordered by their last segment
SortByName(S) ==
    IF S = {} THEN <<>>
    ELSE LET m == CHOOSE x \in S : \A y \in S : Rank(Last(x)) <= Rank(Last(y))
         IN  <<m>> \o SortByName(S \ {m})

\* a ReadFile that answers a missing file with empty content
ReadFileEmptyWhenMissing(f, p) ==
    IF IsFile(f, p) THEN [ok |-> TRUE, data |-> f[p].data]
    ELSE [ok |-> TRUE, data |-> <<>>]

\* os.ReadFile
ReadFile(f, p) ==
    IF IsFile(f, p) THEN [ok |-> TRUE, data |-> f[p].data]
    ELSE [ok |-> FALSE, data |-> <<>>]

\* a MkdirAll that reports success and creates nothing
MkdirAllCreatesNothing(f, p) == [ok |-> TRUE, fs |-> f, made |-> {}]

RECURSIVE MkdirAll(_, _)
\* os.MkdirAll: fails when the path or an ancestor is a regular file
MkdirAll(f, p) ==
    IF p \in DOMAIN f
    THEN [ok |-> f[p].isDir, fs |-> f, made |-> {}]
    ELSE LET r == MkdirAll(f, Dir(p))
         IN  IF r.ok
             THEN [ok |-> TRUE, fs |-> Put(r.fs, p, DirNode), made |-> r.made \cup {p}]
             ELSE [ok |-> FALSE, fs |-> f, made |-> {}]

\* os.WriteFile: creates or truncates; fails on a directory or a missing parent
WriteFile(f, p, d) ==
    IF p # <<>> /\ IsDir(f, Dir(p)) /\ ~IsDir(f, p)
    THEN [ok |-> TRUE, fs |-> Put(f, p, FileNode(d))]
    ELSE [ok |-> FALSE, fs |-> f]

\* os.Remove: a file or an empty directory
Remove(f, p) ==
    IF p \in DOMAIN f /\ p # <<>> /\ Children(f, p) = {}
    THEN [ok |-> TRUE, fs |-> Drop(f, p)]
    ELSE [ok |-> FALSE, fs |-> f]

\* a walk that lists a directory without descending into its subdirectories
walkOneLevel(f, p) ==
    IF ~f[p].isDir THEN <<[path |-> p, isDir |-> FALSE, err |-> FALSE]>>
    ELSE <<[path |-> p, isDir |-> TRUE, err |-> FALSE]>>
         \o [i \in 1..Cardinality(Children(f, p)) |->
               LET q == SortByName(Children(f, p))[i]
               IN  [path |-> q, isDir |-> f[q].isDir, err |-> FALSE]]

RECURSIVE walk(_, _)
RECURSIVE walkAll(_, _)
\* filepath.walk: the entry itself, then its children in name order
walk(f, p) ==
    IF ~f[p].isDir THEN <<[path |-> p, isDir |-> FALSE, err |-> FALSE]>>
    ELSE <<[path |-> p, isDir |-> TRUE, err |-> FALSE]>>
         \o walkAll(f, SortByName(Children(f, p)))

walkAll(f, ps) ==
    IF ps = <<>> THEN <<>> ELSE walk(f, Head(ps)) \o walkAll(f, Tail(ps))

\* filepath.Walk: the sequence of callback invocations of a complete walk
Walk(f, root) ==
    IF root \notin DOMAIN f
    THEN <<[path |-> root, isDir |-> FALSE, err |-> TRUE]>>
    ELSE walk(f, root)

(***************************************************************************)
(* State.                                                                  *)
(***************************************************************************)
VARIABLES
    fs,       \* the local file system
    remote,   \* the object store: key -> stored bytes
    faults,   \* which store calls fail: [list : BOOLEAN, keys : set of keys]
    op,       \* the engine call in progress
    ctx,      \* its context: "active", "canceled" or "deadline"
    hist,     \* what the call in progress has done so far
    ciphers,  \* cipher specification: instance -> cipher built by NewAESGCM
    enc,      \* cipher specification: the last Encrypt call
    dec,      \* cipher specification: the last Decrypt call
    mock,     \* store specification: the filesystem-rooted store (ossMock)
    cloud,    \* store specification: the cloud client (ossClient) and its bucket
    ui,       \* UI specification: the AppUI and the operations it started
    logh,     \* log specification: the UILogHandler and its callers
    menu,     \* menu specification: the call of menu.NewMenu
    sync      \* reconciliation specification: the engine calls made so far

vars == <<fs, remote, faults, op, ctx, hist, ciphers, enc, dec, mock, cloud, ui, logh, menu,
          sync>>
engineVars == <<fs, remote, faults, op, ctx, hist>>
cipherVars == <<ciphers, enc, dec>>
restVars == <<mock, cloud, ui, logh, menu, sync>>

(***************************************************************************)
(* pkg/storage Client contract, as the engine sees it.                     *)
(***************************************************************************)
\* Client.List(""): every key, in no particular order
StoreList(r, flt) ==
    IF flt.list THEN [ok |-> FALSE, keys |-> {}]
    ELSE [ok |-> TRUE, keys |-> DOMAIN r]

\* Client.Upload: stores or overwrites
StoreUpload(r, flt, key, data) ==
    IF key \in flt.keys THEN [ok |-> FALSE, store |-> r]
    ELSE [ok |-> TRUE,
          store |-> [k \in DOMAIN r \cup {key} |-> IF k = key THEN data ELSE r[k]]]

\* a Download that removes the object it has read
StoreDownloadConsumes(r, flt, key) ==
    IF key \in flt.keys \/ key \notin DOMAIN r
    THEN [ok |-> FALSE, data |-> <<>>, store |-> r]
    ELSE [ok |-> TRUE, data |-> r[key],
          store |-> [k \in DOMAIN r \ {key} |-> r[k]]]

\* Client.Download: fails when the key is absent; store is the store after
\* the call
StoreDownload(r, flt, key) ==
    IF key \in flt.keys \/ key \notin DOMAIN r
    THEN [ok |-> FALSE, data |-> <<>>, store |-> r]
    ELSE [ok |-> TRUE, data |-> r[key], store |-> r]

(***************************************************************************)
(* pkg/dir FileManager.                                                    *)
(***************************************************************************)
\* cfg.TargetDir, an absolute path
WorkingDir == <<"w">>
\* a directory next to the working directory
OutsideDir == <<"o">>
\* the cipher injected into NewFileManager
EngineCipher == NewAESGCM(PassA)

\* a select that never takes the ctx.Done() case
CtxNeverDone(c) == FALSE

\* select { case <-ctx.Done(): ... default: }: whether the Done case is taken
CtxDone(c) == c # "active"

\* ctx.Err()
CtxErr(c) == IF c = "canceled" THEN "context canceled" ELSE "context deadline exceeded"

\* FileManager.EncryptAndUploadFile; calls lists the keys passed to Upload
EncryptAndUploadFile(f, r, flt, nonce, filePath, relativePath) ==
    LET rd == ReadFile(f, filePath)
    IN  IF ~rd.ok
        THEN [err |-> "failed to read file", remote |-> r, calls |-> <<>>]
        ELSE LET key == ToSlash(relativePath)
                 up  == StoreUpload(r, flt, key, Encrypt(EngineCipher, nonce, rd.data))
             IN  IF ~up.ok
                 THEN [err |-> "failed to upload file", remote |-> r, calls |-> <<key>>]
                 ELSE [err |-> "nil", remote |-> up.store, calls |-> <<key>>]

\* a DownloadAndDecryptFile that creates the parent directory before it
\* downloads
DownloadAfterMkdir(f, r, flt, remotePath, localPath) ==
    LET md == MkdirAll(f, Dir(localPath))
        dl == StoreDownload(r, flt, remotePath)
        pt == Decrypt(EngineCipher, dl.data)
    IN  IF ~md.ok
        THEN [remote |-> dl.store, err |-> "failed to create directory", fs |-> f, written |-> {}]
        ELSE IF ~dl.ok
        THEN [remote |-> dl.store, err |-> "failed to download file", fs |-> md.fs, written |-> md.made]
        ELSE IF ~pt.ok
        THEN [remote |-> dl.store, err |-> "failed to decrypt file", fs |-> md.fs, written |-> md.made]
        ELSE LET wr == WriteFile(md.fs, localPath, pt.data)
             IN  IF ~wr.ok
                 THEN [remote |-> dl.store, err |-> "failed to write file", fs |-> md.fs, written |-> md.made]
                 ELSE [remote |-> dl.store, err |-> "nil", fs |-> wr.fs, written |-> md.made \cup {localPath}]

\* FileManager.DownloadAndDecryptFile; written lists the paths it created or wrote
DownloadAndDecryptFile(f, r, flt, remotePath, localPath) ==
    LET dl == StoreDownload(r, flt, remotePath)
    IN  IF ~dl.ok
        THEN [remote |-> dl.store, err |-> "failed to download file", fs |-> f, written |-> {}]
        ELSE LET pt == Decrypt(EngineCipher, dl.data)
             IN  IF ~pt.ok
                 THEN [remote |-> dl.store, err |-> "failed to decrypt file", fs |-> f, written |-> {}]
                 ELSE LET md == MkdirAll(f, Dir(localPath))
                      IN  IF ~md.ok
                          THEN [remote |-> dl.store, err |-> "failed to create directory", fs |-> f, written |-> {}]
                          ELSE LET wr == WriteFile(md.fs, localPath, pt.data)
                               IN  IF ~wr.ok
                                   THEN [remote |-> dl.store, err |-> "failed to write file", fs |-> md.fs,
                                         written |-> md.made]
                                   ELSE [remote |-> dl.store, err |-> "nil", fs |-> wr.fs,
                                         written |-> md.made \cup {localPath}]

\* the local scan of SyncDownload: slash paths of the regular files below the
\* working directory, relative to it
LocalFileSet(f) ==
    LET w == Walk(f, WorkingDir)
    IN  {ToSlash(Rel(WorkingDir, w[i].path)) : i \in {j \in 1..Len(w) : ~w[j].isDir}}

\* dir.List: the names of one directory level, hidden ones left out
List(f, dir) ==
    IF ~IsDir(f, dir) THEN {}
    ELSE {<<Last(q)>> : q \in {c \in Children(f, dir) : ~HasPrefixDot(Last(c))}}

\* a remoteSet that is allocated but never filled
RemoteSetNeverFilled(keys) == {}

\* the remoteSet of SyncUpload: every remote key and its first segment
RemoteSet(keys) == keys \cup {<<Head(k)>> : k \in keys}

\* busy: the call is inside EncryptAndUploadFile or DownloadAndDecryptFile
\* for one item (cur, for a download), past the poll of the context;
\* dest: the localPath of a call that downloads one file
Idle == [name |-> "none", pc |-> "idle", arg |-> <<>>, walk |-> <<>>, keys |-> {},
         localSet |-> {}, remoteSet |-> {}, err |-> "nil", busy |-> FALSE,
         cur |-> <<>>, dest |-> <<>>]

\* no cancellation was requested while the call ran
NoCancel == [at |-> 0 - 1, busy |-> FALSE, more |-> FALSE]

\* started: the keys whose transfer was begun, in order; cancel: how many
\* transfers had begun when the context was cancelled during the call,
\* whether one was in progress, and whether the walk or the loop had more
\* entries to visit after the current one
NoHist == [fs0 |-> <<>>, remote0 |-> <<>>, ctx0 |-> "active", calls |-> <<>>,
           written |-> {}, removed |-> {}, failed |-> {}, started |-> <<>>,
           cancel |-> NoCancel]

\* the history of a call that starts now
NewHist(c) == [fs0 |-> fs, remote0 |-> remote, ctx0 |-> c, calls |-> <<>>,
               written |-> {}, removed |-> {}, failed |-> {}, started |-> <<>>,
               cancel |-> NoCancel]

(***************************************************************************)
(* Initial states: a local tree, a remote store and the store's health.    *)
(***************************************************************************)
DataX == <<7>>
DataY == <<>>

\* a blob the engine's cipher produced, and one produced under another passphrase
BlobOf(d) == Encrypt(EngineCipher, NonceOf(0), d)
ForeignBlob == Encrypt(NewAESGCM(PassB), NonceOf(0), DataX)

Prefixes(p) == {SubSeq(p, 1, i) : i \in 0..(Len(p) - 1)}

\* the tree holding the given <<path, data>> files below existing directories
MkTree(files, dirs) ==
    LET fpaths == {x[1] : x \in files}
        dpaths == {<<>>} \cup dirs \cup UNION {Prefixes(p) : p \in fpaths}
    IN  [p \in fpaths \cup dpaths |->
            IF p \in fpaths
            THEN FileNode((CHOOSE x \in files : x[1] = p)[2])
            ELSE DirNode]

LocalTrees ==
    {MkTree(a \cup d \cup o, {WorkingDir, OutsideDir}) :
        a \in {{}, {<<WorkingDir \o <<"a">>, DataX>>}},
        d \in {{}, {<<WorkingDir \o <<"d">>, DataY>>}, {<<WorkingDir \o <<"d", "c">>, DataX>>}},
        o \in {{}, {<<OutsideDir \o <<"f">>, DataX>>},
               {<<OutsideDir \o <<"f">>, DataX>>, <<WorkingDir \o <<"o", "f">>, DataY>>}}}
    \cup {MkTree({}, {OutsideDir}),
          MkTree({<<WorkingDir \o <<"..x">>, DataX>>}, {WorkingDir, OutsideDir})}

\* the store holding the given <<key, blob>> objects
MkStore(objs) ==
    [k \in {x[1] : x \in objs} |-> (CHOOSE x \in objs : x[1] = k)[2]]

RemoteStores ==
    {MkStore(a \cup d \cup b \cup u) :
        a \in {{}, {<<(<<"a">>), BlobOf(DataY)>>}, {<<(<<"a">>), ForeignBlob>>}},
        d \in {{}, {<<(<<"d">>), BlobOf(DataY)>>}},
        b \in {{}, {<<(<<"d", "b">>), BlobOf(DataX)>>}},
        u \in {{}, {<<(<<"..", "o", "f">>), BlobOf(DataY)>>},
               {<<(<<"d", "..", "a">>), BlobOf(DataY)>>}}}

StoreFaults ==
    {[list |-> FALSE, keys |-> {}], [list |-> TRUE, keys |-> {}],
     [list |-> FALSE, keys |-> {<<"a">>}], [list |-> FALSE, keys |-> {<<"d", "c">>}]}

\* no Encrypt call yet: inst, plain, nonce, blob are the first call's
\* instance, argument, drawn nonce and result; inst2, nonce2, blob2 those of
\* a second call on the same plaintext
NoEnc == [inst |-> 0, plain |-> <<>>, nonce |-> <<>>, blob |-> <<>>,
          inst2 |-> 0, nonce2 |-> <<>>, blob2 |-> <<>>]
\* no Decrypt call yet
NoDec == [inst |-> 0, blob |-> <<>>, ok |-> FALSE, plain |-> <<>>]

InitCipherIdle ==
    /\ ciphers = <<>>
    /\ enc = NoEnc
    /\ dec = NoDec

\* no store, no UI and no log handler constructed
NotBuilt == [built |-> FALSE]

InitMockIdle == mock = NotBuilt
InitCloudIdle == cloud = NotBuilt
InitUIIdle == ui = NotBuilt
InitLogIdle == logh = NotBuilt
InitMenuIdle == menu = NotBuilt
InitSyncIdle == sync = NotBuilt

Init ==
    /\ fs \in LocalTrees
    /\ remote \in RemoteStores
    /\ faults \in StoreFaults
    /\ op = Idle
    /\ ctx = "active"
    /\ hist = NoHist
    /\ InitCipherIdle
    /\ InitMockIdle /\ InitCloudIdle /\ InitUIIdle /\ InitLogIdle /\ InitMenuIdle /\ InitSyncIdle

\* an engine that is never called, over an empty working directory
InitEngineIdle ==
    /\ fs = MkTree({}, {WorkingDir, OutsideDir})
    /\ remote = <<>>
    /\ faults = [list |-> FALSE, keys |-> {}]
    /\ op = Idle
    /\ ctx = "active"
    /\ hist = NoHist

(***************************************************************************)
(* Arguments the callers pass.                                             *)
(***************************************************************************)
Contexts == {"active", "canceled", "deadline"}
DirArgs == {WorkingDir, WorkingDir \o <<"d">>, OutsideDir}
FileArgs == {WorkingDir \o <<"a">>, WorkingDir \o <<"d", "c">>, OutsideDir \o <<"f">>}
KeyArgs == {<<"a">>, <<"d", "b">>, <<"..", "o", "f">>, <<"d", "..", "a">>}
LocalPathArgs == {WorkingDir \o <<"f">>, WorkingDir \o <<"c", "f">>}
DeleteArgs == {<<"a">>, <<"d">>, <<"..", "o", "f">>, <<"", "o", "f">>, <<"..">>, <<"..x">>}

\* the call returns err
Return(o, err) == [o EXCEPT !.pc = "done", !.err = err, !.walk = <<>>, !.keys = {},
                            !.busy = FALSE, !.cur = <<>>]

\* the callback enters EncryptAndUploadFile for the entry at the head of the
\* walk, or the loop enters DownloadAndDecryptFile for key k
Enter(o, k) == [o EXCEPT !.busy = TRUE, !.cur = k]
Leave(o) == [o EXCEPT !.busy = FALSE, !.cur = <<>>]

\* a walk that goes on whatever its callback returned
WalkIgnoresError(o, err) ==
    IF Tail(o.walk) = <<>> THEN Return(o, "nil") ELSE [o EXCEPT !.walk = Tail(o.walk)]

\* the walk goes on to its next entry, or ends
NextEntry(o) ==
    IF Tail(o.walk) = <<>> THEN Return(o, "nil") ELSE [o EXCEPT !.walk = Tail(o.walk)]

\* filepath.Walk after its callback returned err: a non-nil error ends the
\* walk and is returned
WalkResult(o, err) == IF err # "nil" THEN Return(o, err) ELSE NextEntry(o)

\* a loop that ends after its first key
NextKeyEndsLoop(o, k) == Return(o, "nil")

\* the loop over the remote keys goes on after key k, or ends
NextKey(o, k) ==
    IF o.keys \ {k} = {} THEN Return(o, "nil") ELSE [o EXCEPT !.keys = o.keys \ {k}]

(***************************************************************************)
(* FileManager.EncryptAndUploadDirectory: the call, then one step per      *)
(* invocation of the walk callback.                                        *)
(***************************************************************************)
EncryptAndUploadDirectory(dirPath, c) ==
    /\ op.pc = "idle"
    /\ op' = [Idle EXCEPT !.name = "EncryptAndUploadDirectory", !.pc = "run",
                          !.arg = dirPath, !.walk = Walk(fs, dirPath)]
    /\ ctx' = c
    /\ hist' = NewHist(c)
    /\ UNCHANGED <<fs, remote, faults, cipherVars, restVars>>

EncryptAndUploadDirectoryWalkFn ==
    /\ op.pc = "run"
    /\ op.name = "EncryptAndUploadDirectory"
    /\ LET e == Head(op.walk)
           relativePath == Rel(WorkingDir, e.path)
       IN  IF op.busy
           THEN \E nonce \in Nonces :
                  LET r == EncryptAndUploadFile(fs, remote, faults, nonce, e.path,
                                                relativePath)
                  IN  /\ remote' = r.remote
                      /\ hist' = [hist EXCEPT
                            !.calls = @ \o r.calls,
                            !.failed = IF r.err # "nil"
                                       THEN @ \cup {ToSlash(relativePath)} ELSE @]
                      /\ op' = WalkResult(Leave(op), r.err)
           ELSE IF CtxDone(ctx)
           THEN /\ op' = Return(op, CtxErr(ctx))
                /\ UNCHANGED <<remote, hist>>
           ELSE IF e.err
           THEN /\ op' = Return(op, "walk error")
                /\ UNCHANGED <<remote, hist>>
           ELSE IF e.isDir
           THEN /\ op' = NextEntry(op)
                /\ UNCHANGED <<remote, hist>>
           ELSE /\ op' = Enter(op, ToSlash(relativePath))
                /\ hist' = [hist EXCEPT !.started = Append(@, ToSlash(relativePath))]
                /\ remote' = remote
    /\ UNCHANGED <<fs, faults, ctx, cipherVars, restVars>>

(***************************************************************************)
(* FileManager.SyncUpload.                                                 *)
(***************************************************************************)
SyncUpload(c) ==
    /\ op.pc = "idle"
    /\ LET ls == StoreList(remote, faults)
       IN  op' = IF ~ls.ok
                 THEN Return([Idle EXCEPT !.name = "SyncUpload"],
                             "failed to list remote files")
                 ELSE [Idle EXCEPT !.name = "SyncUpload", !.pc = "run",
                                   !.remoteSet = RemoteSet(ls.keys),
                                   !.walk = Walk(fs, WorkingDir)]
    /\ ctx' = c
    /\ hist' = NewHist(c)
    /\ UNCHANGED <<fs, remote, faults, cipherVars, restVars>>

SyncUploadWalkFn ==
    /\ op.pc = "run"
    /\ op.name = "SyncUpload"
    /\ LET e == Head(op.walk)
           relativePath  == Rel(WorkingDir, e.path)
           relativeSlash == ToSlash(relativePath)
       IN  IF op.busy
           THEN \E nonce \in Nonces :
                  LET r == EncryptAndUploadFile(fs, remote, faults, nonce,
                                                e.path, relativePath)
                  IN  /\ remote' = r.remote
                      /\ hist' = [hist EXCEPT
                            !.calls = @ \o r.calls,
                            !.failed = IF r.err # "nil"
                                       THEN @ \cup {relativeSlash} ELSE @]
                      /\ op' = NextEntry(Leave(op))
           ELSE IF CtxDone(ctx)
           THEN /\ op' = Return(op, CtxErr(ctx))
                /\ UNCHANGED <<remote, hist>>
           ELSE IF e.err
           THEN /\ op' = Return(op, "walk error")
                /\ UNCHANGED <<remote, hist>>
           ELSE IF e.isDir \/ relativeSlash \in op.remoteSet
           THEN /\ op' = NextEntry(op)
                /\ UNCHANGED <<remote, hist>>
           ELSE /\ op' = Enter(op, relativeSlash)
                /\ hist' = [hist EXCEPT !.started = Append(@, relativeSlash)]
                /\ remote' = remote
    /\ UNCHANGED <<fs, faults, ctx, cipherVars, restVars>>

(***************************************************************************)
(* FileManager.SyncDownload: the listing and the local scan, then one step *)
(* per remote key, in whatever order List returned them.                   *)
(***************************************************************************)
SyncDownload(c) ==
    /\ op.pc = "idle"
    /\ LET ls == StoreList(remote, faults)
           o  == [Idle EXCEPT !.name = "SyncDownload"]
       IN  op' = IF ~ls.ok THEN Return(o, "failed to list remote files")
                 ELSE IF Walk(fs, WorkingDir)[1].err
                 THEN Return(o, "failed to scan local files")
                 ELSE IF ls.keys = {} THEN Return(o, "nil")
                 ELSE [o EXCEPT !.pc = "run", !.keys = ls.keys,
                                !.localSet = LocalFileSet(fs)]
    /\ ctx' = c
    /\ hist' = NewHist(c)
    /\ UNCHANGED <<fs, remote, faults, cipherVars, restVars>>

\* the call of DownloadAndDecryptFile the loop is in
DownloadLoopTransfer ==
    LET k == op.cur
        localPath == Join(WorkingDir, k)
        r == DownloadAndDecryptFile(fs, remote, faults, k, localPath)
    IN  /\ fs' = r.fs
        /\ remote' = r.remote
        /\ hist' = [hist EXCEPT
              !.written = @ \cup r.written,
              !.failed = IF r.err # "nil" THEN @ \cup {k} ELSE @]
        /\ op' = NextKey(Leave(op), k)

\* the top of one iteration of a download loop; present tells whether the
\* key is held to exist locally
DownloadLoopStep(k, present) ==
    IF CtxDone(ctx)
    THEN /\ op' = Return(op, CtxErr(ctx))
         /\ UNCHANGED <<fs, remote, hist>>
    ELSE IF present
    THEN /\ op' = NextKey(op, k)
         /\ UNCHANGED <<fs, remote, hist>>
    ELSE /\ op' = Enter(op, k)
         /\ hist' = [hist EXCEPT !.started = Append(@, k)]
         /\ UNCHANGED <<fs, remote>>

SyncDownloadStep ==
    /\ op.pc = "run"
    /\ op.name = "SyncDownload"
    /\ IF op.busy
       THEN DownloadLoopTransfer
       ELSE \E remotePath \in op.keys :
              DownloadLoopStep(remotePath, remotePath \in op.localSet)
    /\ UNCHANGED <<faults, ctx, cipherVars, restVars>>

(***************************************************************************)
(* The SyncDownload of pkg/dir/filemanager.go, which compares the first    *)
(* segment of a remote key with the top-level names of the working         *)
(* directory.                                                              *)
(***************************************************************************)
SyncDownloadTopLevel(c) ==
    /\ op.pc = "idle"
    /\ LET ls == StoreList(remote, faults)
           o  == [Idle EXCEPT !.name = "SyncDownloadTopLevel"]
       IN  op' = IF ~ls.ok THEN Return(o, "failed to list remote files")
                 ELSE IF ls.keys = {} THEN Return(o, "nil")
                 ELSE [o EXCEPT !.pc = "run", !.keys = ls.keys,
                                !.localSet = List(fs, WorkingDir)]
    /\ ctx' = c
    /\ hist' = NewHist(c)
    /\ UNCHANGED <<fs, remote, faults, cipherVars, restVars>>

SyncDownloadTopLevelStep ==
    /\ op.pc = "run"
    /\ op.name = "SyncDownloadTopLevel"
    /\ IF op.busy
       THEN DownloadLoopTransfer
       ELSE \E remotePath \in op.keys :
              DownloadLoopStep(remotePath, <<Head(remotePath)>> \in op.localSet)
    /\ UNCHANGED <<faults, ctx, cipherVars, restVars>>

(***************************************************************************)
(* Single calls.                                                           *)
(***************************************************************************)
DownloadSpecificFile(c, remotePath) ==
    /\ op.pc = "idle"
    /\ LET o == [Idle EXCEPT !.name = "DownloadSpecificFile", !.arg = remotePath,
                              !.dest = Join(WorkingDir, remotePath)]
       IN  IF CtxDone(c)
           THEN /\ op' = Return(o, CtxErr(c))
                /\ hist' = NewHist(c)
                /\ UNCHANGED <<fs, remote>>
           ELSE LET r == DownloadAndDecryptFile(fs, remote, faults, remotePath,
                                                Join(WorkingDir, remotePath))
                IN  /\ op' = Return(o, r.err)
                    /\ hist' = [NewHist(c) EXCEPT !.written = r.written]
                    /\ fs' = r.fs
                    /\ remote' = r.remote
    /\ ctx' = c
    /\ UNCHANGED <<faults, cipherVars, restVars>>

CallEncryptAndUploadFile(filePath, relativePath) ==
    /\ op.pc = "idle"
    /\ \E nonce \in Nonces :
         LET r == EncryptAndUploadFile(fs, remote, faults, nonce, filePath, relativePath)
         IN  /\ remote' = r.remote
             /\ hist' = [NewHist("active") EXCEPT
                   !.calls = r.calls,
                   !.failed = IF r.err # "nil" THEN {ToSlash(relativePath)} ELSE {}]
             /\ op' = Return([Idle EXCEPT !.name = "EncryptAndUploadFile",
                                          !.arg = filePath], r.err)
    /\ UNCHANGED <<fs, faults, ctx, cipherVars, restVars>>

CallDownloadAndDecryptFile(remotePath, localPath) ==
    /\ op.pc = "idle"
    /\ LET r == DownloadAndDecryptFile(fs, remote, faults, remotePath, localPath)
       IN  /\ op' = Return([Idle EXCEPT !.name = "DownloadAndDecryptFile",
                                        !.arg = remotePath, !.dest = localPath], r.err)
           /\ hist' = [NewHist("active") EXCEPT !.written = r.written]
           /\ fs' = r.fs
           /\ remote' = r.remote
    /\ UNCHANGED <<faults, ctx, cipherVars, restVars>>

DeleteLocalFile(relativePath) ==
    /\ op.pc = "idle"
    /\ LET localPath       == Join(WorkingDir, relativePath)
           cleanLocalPath  == Clean(localPath)
           cleanWorkingDir == Clean(WorkingDir)
           relPath         == Rel(cleanWorkingDir, cleanLocalPath)
           o == [Idle EXCEPT !.name = "DeleteLocalFile", !.arg = relativePath]
       IN  IF HasPrefixDotDot(Head(relPath))
           THEN /\ op' = Return(o, "file is outside working directory")
                /\ hist' = NewHist("active")
                /\ fs' = fs
           ELSE LET rm == Remove(fs, localPath)
                IN  /\ op' = Return(o, IF rm.ok THEN "nil" ELSE "failed to delete file")
                    /\ hist' = [NewHist("active") EXCEPT
                          !.removed = IF rm.ok THEN {localPath} ELSE {}]
                    /\ fs' = rm.fs
    /\ UNCHANGED <<remote, faults, ctx, cipherVars, restVars>>

\* the caller cancels the context of the running call, or its deadline
\* passes, between two steps of the call or while a transfer is in progress
Cancel(c) ==
    /\ op.pc = "run"
    /\ ctx = "active"
    /\ ctx' = c
    /\ hist' = [hist EXCEPT !.cancel =
          [at |-> Len(hist.started), busy |-> op.busy,
           more |-> IF op.walk # <<>> THEN Tail(op.walk) # <<>>
                    ELSE op.keys \ {op.cur} # {}]]
    /\ UNCHANGED <<fs, remote, faults, op, cipherVars, restVars>>

Next ==
    \/ \E d \in DirArgs, c \in Contexts : EncryptAndUploadDirectory(d, c)
    \/ EncryptAndUploadDirectoryWalkFn
    \/ \E c \in Contexts : SyncUpload(c)
    \/ SyncUploadWalkFn
    \/ \E c \in Contexts : SyncDownload(c)
    \/ SyncDownloadStep
    \/ \E c \in Contexts : SyncDownloadTopLevel(c)
    \/ SyncDownloadTopLevelStep
    \/ \E c \in Contexts, k \in KeyArgs : DownloadSpecificFile(c, k)
    \/ \E p \in FileArgs : CallEncryptAndUploadFile(p, Rel(WorkingDir, p))
    \/ \E k \in KeyArgs, p \in LocalPathArgs : CallDownloadAndDecryptFile(k, p)
    \/ \E r \in DeleteArgs : DeleteLocalFile(r)
    \/ Cancel("canceled")

Spec == Init /\ [][Next]_vars

(***************************************************************************)
(* The cipher on its own: instances are built from passphrases, one of     *)
(* them encrypts a plaintext, one of them decrypts the result.             *)
(***************************************************************************)
PlainBytes == (0..MaxPlainByte) \cup {ByteMod - 1}
Plaintexts == UNION {[1..n -> PlainBytes] : n \in 0..MaxPlainLen}

InitCipher ==
    /\ fs = MkTree({}, {WorkingDir, OutsideDir})
    /\ remote = <<>>
    /\ faults = [list |-> FALSE, keys |-> {}]
    /\ op = Idle
    /\ ctx = "active"
    /\ hist = NoHist
    /\ ciphers = <<>>
    /\ enc = NoEnc
    /\ dec = NoDec
    /\ InitMockIdle /\ InitCloudIdle /\ InitUIIdle /\ InitLogIdle /\ InitMenuIdle /\ InitSyncIdle

\* cipher := NewAESGCM(password)
CallNewAESGCM(password) ==
    /\ Len(ciphers) < MaxCiphers
    /\ ciphers' = Append(ciphers, [pass |-> password, ag |-> NewAESGCM(password)])
    /\ UNCHANGED <<enc, dec, engineVars, restVars>>

\* blob, err := ciphers[i].Encrypt(plain): the first Encrypt of a behaviour
CallEncrypt(i, plain) ==
    /\ enc.inst = 0
    /\ \E nonce \in Nonces :
         enc' = [NoEnc EXCEPT !.inst = i, !.plain = plain, !.nonce = nonce,
                              !.blob = Encrypt(ciphers[i].ag, nonce, plain)]
    /\ dec' = NoDec
    /\ UNCHANGED <<ciphers, engineVars, restVars>>

\* blob2, err := ciphers[i].Encrypt(plain): the same plaintext encrypted a
\* second time; rand.Reader may return any nonce, the first one included
CallEncryptAgain(i) ==
    /\ enc.inst # 0
    /\ enc.inst2 = 0
    /\ dec.inst = 0
    /\ \E nonce \in Nonces :
         enc' = [enc EXCEPT !.inst2 = i, !.nonce2 = nonce,
                            !.blob2 = Encrypt(ciphers[i].ag, nonce, enc.plain)]
    /\ UNCHANGED <<ciphers, dec, engineVars, restVars>>

\* plain, err := ciphers[i].Decrypt(blob) on the blob of the first Encrypt;
\* a behaviour decrypts once
CallDecrypt(i) ==
    /\ enc.inst # 0
    /\ enc.inst2 = 0
    /\ dec.inst = 0
    /\ LET r == Decrypt(ciphers[i].ag, enc.blob)
       IN  dec' = [inst |-> i, blob |-> enc.blob, ok |-> r.ok, plain |-> r.data]
    /\ UNCHANGED <<ciphers, enc, engineVars, restVars>>

\* lengths of inputs that are empty, shorter than the nonce, or too short to
\* carry a tag after the nonce
ShortLens == {0, 1, NonceSize - 1, NonceSize, NonceSize + 1, NonceSize + TagSize - 1}
ShortInputs == {[j \in 1..n |-> (3 * j) % ByteMod] : n \in ShortLens}

\* plain, err := ciphers[i].Decrypt(input) on an input that is no blob
CallDecryptShort(i, input) ==
    /\ enc.inst2 = 0
    /\ dec.inst = 0
    /\ LET r == Decrypt(ciphers[i].ag, input)
       IN  dec' = [inst |-> i, blob |-> input, ok |-> r.ok, plain |-> r.data]
    /\ UNCHANGED <<ciphers, enc, engineVars, restVars>>

\* what is added to the byte that is changed
TamperDeltas == {1, ByteMod \div 2}

\* plain, err := ciphers[i].Decrypt(tampered), tampered being the blob of the
\* first Encrypt with the byte at pos changed
CallDecryptTampered(i, pos, delta) ==
    /\ enc.inst # 0
    /\ enc.inst2 = 0
    /\ dec.inst = 0
    /\ LET tampered == [enc.blob EXCEPT ![pos] = (@ + delta) % ByteMod]
           r == Decrypt(ciphers[i].ag, tampered)
       IN  dec' = [inst |-> i, blob |-> tampered, ok |-> r.ok, plain |-> r.data]
    /\ UNCHANGED <<ciphers, enc, engineVars, restVars>>

NextCipher ==
    \/ \E password \in Passphrases : CallNewAESGCM(password)
    \/ \E i \in 1..Len(ciphers), plain \in Plaintexts : CallEncrypt(i, plain)
    \/ \E i \in 1..Len(ciphers) : CallEncryptAgain(i)
    \/ \E i \in 1..Len(ciphers) : CallDecrypt(i)
    \/ \E i \in 1..Len(ciphers), input \in ShortInputs : CallDecryptShort(i, input)
    \/ \E i \in 1..Len(ciphers), pos \in 1..Len(enc.blob), delta \in TamperDeltas :
          CallDecryptTampered(i, pos, delta)

SpecCipher == InitCipher /\ [][NextCipher]_vars

(***************************************************************************)
(* pkg/storage ossMock: the store rooted at a directory of the file        *)
(* system.  Its callers are either one goroutine making any calls (the     *)
(* engine is the store's sole caller) or the goroutines of                 *)
(* TestOSSMock_ConcurrentOperations.                                       *)
(***************************************************************************)
\* calls the single caller makes
MaxMockCalls == 3
\* goroutines of the concurrent run
MaxWorkers == 2

\* the directory handed to NewOSSMock
MockBase == <<"t">>

\* the pairs <<p, n>> of distinct non-empty segment names where n starts with p
NamePrefixes ==
    {<<".", "..">>, <<".", "..x">>, <<".", ".h">>, <<"..", "..x">>, <<"a", "ab">>}

\* strings.HasPrefix(n, p) for two segment names
NameHasPrefix(n, p) == p = "" \/ p = n \/ <<p, n>> \in NamePrefixes

\* strings.HasPrefix(s, prefix) for two slash-separated strings, each the
\* sequence of its segments: "" is <<"">> and "d/" is <<"d", "">>
HasPrefix(s, prefix) ==
    /\ Len(prefix) <= Len(s)
    /\ \A i \in 1..(Len(prefix) - 1) : prefix[i] = s[i]
    /\ NameHasPrefix(s[Len(prefix)], prefix[Len(prefix)])

\* NewOSSMock(base): os.MkdirAll(base), next to a file that is not the store's
NewOSSMock ==
    MkdirAll(MkTree({<<OutsideDir \o <<"f">>, DataX>>}, {}), MockBase).fs

\* ossMock.keyPath
keyPath(key) == Join(MockBase, key)

RECURSIVE ListWalkFn(_, _)
\* the callback of ossMock.List over the entries of the walk: directories
\* are skipped, an entry's error ends the walk
ListWalkFn(entries, prefix) ==
    IF entries = <<>> THEN [ok |-> TRUE, out |-> <<>>]
    ELSE LET e == Head(entries)
         IN  IF e.err THEN [ok |-> FALSE, out |-> <<>>]
             ELSE LET rest == ListWalkFn(Tail(entries), prefix)
                      rel  == ToSlash(Rel(MockBase, e.path))
                  IN  IF ~rest.ok THEN rest
                      ELSE IF e.isDir THEN rest
                      ELSE IF prefix = <<"">> \/ HasPrefix(rel, prefix)
                           THEN [ok |-> TRUE, out |-> <<rel>> \o rest.out]
                           ELSE rest

\* ossMock.List, between Lock and Unlock
ossMockList(f, prefix) == ListWalkFn(Walk(f, MockBase), prefix)

\* ossMock.Upload, between Lock and Unlock
ossMockUpload(f, key, data) ==
    LET p  == keyPath(key)
        mk == MkdirAll(f, Dir(p))
    IN  IF ~mk.ok THEN [ok |-> FALSE, fs |-> f]
        ELSE WriteFile(mk.fs, p, data)

\* ossMock.Download, between Lock and Unlock
ossMockDownload(f, key) == ReadFile(f, keyPath(key))

\* ossMock.Delete
ossMockDelete(f, key) == [ok |-> TRUE, fs |-> f]

\* a Lock that never waits
LockNeverBlocks(mu) == TRUE

\* sync.Mutex.Lock returns only while the mutex is unlocked
TryLock(mu) == ~mu

MockKeys == {<<"a">>, <<"ab">>, <<"d", "b">>, <<"..", "o", "f">>}
MockData == {DataX, DataY}
MockPrefixes == {<<"">>, <<"a">>, <<"d", "">>, <<"c">>}
MockDeleteKeys == {<<"a">>, <<"d", "b">>}

MockCall(fn, key, data) == [fn |-> fn, key |-> key, data |-> data]

\* what the single caller may call
MockCalls ==
    {MockCall("Upload", k, d) : k \in MockKeys, d \in MockData}
    \cup {MockCall("Download", k, <<>>) : k \in MockKeys}
    \cup {MockCall("List", p, <<>>) : p \in MockPrefixes}
    \cup {MockCall("Delete", k, <<>>) : k \in MockDeleteKeys}

\* key := fmt.Sprintf("concurrent/file%d.txt", id) and
\* data := []byte(fmt.Sprintf("data%d", id)) of goroutine id
WorkerNames == <<"a", "b", "c", "f">>
WorkerKey(id) == <<"d", WorkerNames[id]>>
WorkerData(id) == <<id>>
WorkerCalls(id) ==
    <<MockCall("Upload", WorkerKey(id), WorkerData(id)),
      MockCall("Download", WorkerKey(id), <<>>)>>

\* a goroutine that has called nothing yet
NoProc == [pc |-> "idle", call |-> MockCall("", <<>>, <<>>), rets |-> <<>>]

\* the record of a returned call: out is what Download or List returned
Ret(c, ok, out) ==
    [fn |-> c.fn, key |-> c.key, data |-> c.data, ok |-> ok, out |-> out]

\* goroutine id of the concurrent run has returned
Finished(m, id) ==
    /\ m.procs[id].pc = "idle"
    /\ \/ Len(m.procs[id].rets) = 2
       \/ \E j \in 1..Len(m.procs[id].rets) : ~m.procs[id].rets[j].ok

\* the calls goroutine i may make next
CallsOf(m, i) ==
    LET done == m.procs[i].rets
    IN  IF m.mode = "calls"
        THEN IF Len(done) < MaxMockCalls THEN MockCalls ELSE {}
        ELSE IF i = 0
             THEN IF done = <<>> /\ \A j \in 1..m.n : Finished(m, j)
                  THEN {MockCall("List", <<"d", "">>, <<>>)}
                  ELSE {}
             ELSE IF Finished(m, i) THEN {}
                  ELSE {WorkerCalls(i)[Len(done) + 1]}

InitMock ==
    /\ mock \in {[built |-> TRUE, mode |-> "calls", n |-> 0, fs |-> NewOSSMock,
                  mu |-> FALSE, procs |-> [i \in {0} |-> NoProc]]}
           \cup {[built |-> TRUE, mode |-> "workers", n |-> n, fs |-> NewOSSMock,
                  mu |-> FALSE, procs |-> [i \in 0..n |-> NoProc]] :
                     n \in 1..MaxWorkers}
    /\ InitEngineIdle /\ InitCipherIdle
    /\ InitCloudIdle /\ InitUIIdle /\ InitLogIdle /\ InitMenuIdle /\ InitSyncIdle

\* goroutine i calls List, Upload or Download and reaches o.mu.Lock()
MockEnter(i, c) ==
    /\ mock.procs[i].pc = "idle"
    /\ c \in CallsOf(mock, i)
    /\ c.fn # "Delete"
    /\ mock' = [mock EXCEPT !.procs[i].pc = "lock", !.procs[i].call = c]
    /\ UNCHANGED <<engineVars, cipherVars, cloud, ui, logh, menu, sync>>

\* o.mu.Lock() returns
MockLock(i) ==
    /\ mock.procs[i].pc = "lock"
    /\ TryLock(mock.mu)
    /\ mock' = [mock EXCEPT !.mu = TRUE, !.procs[i].pc = "held"]
    /\ UNCHANGED <<engineVars, cipherVars, cloud, ui, logh, menu, sync>>

\* the body of List and the deferred Unlock
MockList(i) ==
    /\ mock.procs[i].pc = "held"
    /\ mock.procs[i].call.fn = "List"
    /\ LET r == ossMockList(mock.fs, mock.procs[i].call.key)
       IN  mock' = [mock EXCEPT !.mu = FALSE, !.procs[i].pc = "idle",
                       !.procs[i].rets = Append(@, Ret(mock.procs[i].call, r.ok, r.out))]
    /\ UNCHANGED <<engineVars, cipherVars, cloud, ui, logh, menu, sync>>

\* the body of Upload and the deferred Unlock
MockUpload(i) ==
    /\ mock.procs[i].pc = "held"
    /\ mock.procs[i].call.fn = "Upload"
    /\ LET c == mock.procs[i].call
           r == ossMockUpload(mock.fs, c.key, c.data)
       IN  mock' = [mock EXCEPT !.mu = FALSE, !.fs = r.fs, !.procs[i].pc = "idle",
                       !.procs[i].rets = Append(@, Ret(c, r.ok, <<>>))]
    /\ UNCHANGED <<engineVars, cipherVars, cloud, ui, logh, menu, sync>>

\* the body of Download and the deferred Unlock
MockDownload(i) ==
    /\ mock.procs[i].pc = "held"
    /\ mock.procs[i].call.fn = "Download"
    /\ LET c == mock.procs[i].call
           r == ossMockDownload(mock.fs, c.key)
       IN  mock' = [mock EXCEPT !.mu = FALSE, !.procs[i].pc = "idle",
                       !.procs[i].rets = Append(@, Ret(c, r.ok, r.data))]
    /\ UNCHANGED <<engineVars, cipherVars, cloud, ui, logh, menu, sync>>

\* Delete takes no lock
MockDelete(i, c) ==
    /\ mock.procs[i].pc = "idle"
    /\ c \in CallsOf(mock, i)
    /\ c.fn = "Delete"
    /\ LET r == ossMockDelete(mock.fs, c.key)
       IN  mock' = [mock EXCEPT !.fs = r.fs,
                       !.procs[i].rets = Append(@, Ret(c, r.ok, <<>>))]
    /\ UNCHANGED <<engineVars, cipherVars, cloud, ui, logh, menu, sync>>

NextMock ==
    \/ \E i \in DOMAIN mock.procs, c \in MockCalls \cup {MockCall("List", <<"d", "">>, <<>>)}
                 \cup UNION {{WorkerCalls(w)[1], WorkerCalls(w)[2]} : w \in 1..MaxWorkers} :
           MockEnter(i, c)
    \/ \E i \in DOMAIN mock.procs : MockLock(i)
    \/ \E i \in DOMAIN mock.procs : MockList(i)
    \/ \E i \in DOMAIN mock.procs : MockUpload(i)
    \/ \E i \in DOMAIN mock.procs : MockDownload(i)
    \/ \E i \in DOMAIN mock.procs, c \in MockCalls : MockDelete(i, c)

SpecMock == InitMock /\ [][NextMock]_vars

(***************************************************************************)
(* pkg/storage ossClient: the cloud client over one bucket.  Strings are   *)
(* sequences of characters here, since the client edits keys as strings.   *)
(***************************************************************************)
\* calls made on the cloud client
MaxCloudCalls == 3

\* strings.HasPrefix on character sequences
StrHasPrefix(s, p) == Len(p) <= Len(s) /\ SubSeq(s, 1, Len(p)) = p

\* strings.TrimPrefix
TrimPrefix(s, p) == IF StrHasPrefix(s, p) THEN SubSeq(s, Len(p) + 1, Len(s)) ELSE s

\* strings.TrimSuffix
TrimSuffix(s, p) ==
    IF Len(p) <= Len(s) /\ SubSeq(s, Len(s) - Len(p) + 1, Len(s)) = p
    THEN SubSeq(s, 1, Len(s) - Len(p))
    ELSE s

RECURSIVE ReplaceSlashes(_)
\* strings.Replace(s, "//", "/", -1): non-overlapping, left to right
ReplaceSlashes(s) ==
    IF Len(s) < 2 THEN s
    ELSE IF s[1] = "/" /\ s[2] = "/"
         THEN <<"/">> \o ReplaceSlashes(SubSeq(s, 3, Len(s)))
         ELSE <<s[1]>> \o ReplaceSlashes(Tail(s))

\* the workDir NewOSSClient stores for a configured one
NewOSSClient(workDir) == TrimPrefix(ReplaceSlashes(workDir), <<"/">>)

\* ossClient.getFullPath
getFullPath(workDir, key) ==
    IF workDir = <<>> THEN key
    ELSE LET wd       == TrimSuffix(workDir, <<"/">>)
             cleanKey == TrimPrefix(key, <<"/">>)
         IN  IF cleanKey = <<>> THEN wd
             ELSE ReplaceSlashes(wd \o <<"/">> \o cleanKey)

\* the key ossClient.List returns for an object key of the bucket
StripWorkDir(workDir, key) ==
    IF workDir # <<>> /\ StrHasPrefix(key, workDir \o <<"/">>)
    THEN TrimPrefix(key, workDir \o <<"/">>)
    ELSE IF workDir # <<>> /\ key = workDir THEN <<>>
    ELSE key

\* ossClient.List: the objects ListObjectsV2 finds under the full prefix
ossClientList(bucket, workDir, prefix) ==
    {StripWorkDir(workDir, k) :
        k \in {x \in DOMAIN bucket : StrHasPrefix(x, getFullPath(workDir, prefix))}}

\* ossClient.Upload: PutObject under the full path
ossClientUpload(bucket, workDir, key, data) ==
    LET full == getFullPath(workDir, key)
    IN  [k \in DOMAIN bucket \cup {full} |-> IF k = full THEN data ELSE bucket[k]]

\* ossClient.Download: GetObject of the full path
ossClientDownload(bucket, workDir, key) ==
    LET full == getFullPath(workDir, key)
    IN  IF full \in DOMAIN bucket THEN [ok |-> TRUE, data |-> bucket[full]]
        ELSE [ok |-> FALSE, data |-> <<>>]

\* configured work directories: none, "w", "/w" and "w/"
WorkDirs == {<<>>, <<"w">>, <<"/", "w">>, <<"w", "/">>}
\* keys "a" and "d/a"
CloudKeys == {<<"a">>, <<"d", "/", "a">>}
\* prefixes "" and "d/"
CloudPrefixes == {<<>>, <<"d", "/">>}

\* the record of a returned call: out is what Download returned, keys what
\* List returned
CloudRet(fn, key, data, ok, out, keys) ==
    [fn |-> fn, key |-> key, data |-> data, ok |-> ok, out |-> out, keys |-> keys]

InitCloud ==
    /\ cloud \in {[built |-> TRUE, workDir |-> NewOSSClient(w), bucket |-> <<>>,
                   rets |-> <<>>] : w \in WorkDirs}
    /\ InitEngineIdle /\ InitCipherIdle
    /\ InitMockIdle /\ InitUIIdle /\ InitLogIdle /\ InitMenuIdle /\ InitSyncIdle

CloudList(prefix) ==
    /\ Len(cloud.rets) < MaxCloudCalls
    /\ cloud' = [cloud EXCEPT !.rets = Append(@,
                    CloudRet("List", prefix, <<>>, TRUE, <<>>,
                             ossClientList(cloud.bucket, cloud.workDir, prefix)))]
    /\ UNCHANGED <<engineVars, cipherVars, mock, ui, logh, menu, sync>>

CloudUpload(key, data) ==
    /\ Len(cloud.rets) < MaxCloudCalls
    /\ cloud' = [cloud EXCEPT
                    !.bucket = ossClientUpload(cloud.bucket, cloud.workDir, key, data),
                    !.rets = Append(@, CloudRet("Upload", key, data, TRUE, <<>>, {}))]
    /\ UNCHANGED <<engineVars, cipherVars, mock, ui, logh, menu, sync>>

CloudDownload(key) ==
    /\ Len(cloud.rets) < MaxCloudCalls
    /\ LET r == ossClientDownload(cloud.bucket, cloud.workDir, key)
       IN  cloud' = [cloud EXCEPT
                       !.rets = Append(@, CloudRet("Download", key, <<>>, r.ok, r.data, {}))]
    /\ UNCHANGED <<engineVars, cipherVars, mock, ui, logh, menu, sync>>

\* ossClient.Delete returns nil
CloudDelete(key) ==
    /\ Len(cloud.rets) < MaxCloudCalls
    /\ cloud' = [cloud EXCEPT
                    !.rets = Append(@, CloudRet("Delete", key, <<>>, TRUE, <<>>, {}))]
    /\ UNCHANGED <<engineVars, cipherVars, mock, ui, logh, menu, sync>>

NextCloud ==
    \/ \E p \in CloudPrefixes : CloudList(p)
    \/ \E k \in CloudKeys, d \in MockData : CloudUpload(k, d)
    \/ \E k \in CloudKeys : CloudDownload(k)
    \/ \E k \in CloudKeys : CloudDelete(k)

SpecCloud == InitCloud /\ [][NextCloud]_vars

(***************************************************************************)
(* pkg/appui AppUI: directory navigation, and the operations started by    *)
(* runOperation.  Button callbacks run on the UI thread and hold           *)
(* operationMutex for their whole body, as does the deferred function of   *)
(* an operation's goroutine, so each of them is one step.                  *)
(***************************************************************************)
\* operations started through runOperation
MaxOps == 3

\* the tree the UI browses: /w/a, /w/d/c, /w/..x and /o next to /w
UITree ==
    MkTree({<<WorkingDir \o <<"a">>, DataX>>},
           {WorkingDir, WorkingDir \o <<"d">>, WorkingDir \o <<"d", "c">>,
            WorkingDir \o <<"..x">>, OutsideDir})

\* a check that lets every relative path through
RelNeverEscapes(rel) == FALSE

\* err != nil || strings.HasPrefix(relPath, "..")
RelEscapes(rel) == HasPrefixDotDot(rel[1])

\* AppUI.goUpDirectory: the new currentDir
goUpDirectory(cur) ==
    LET cleanCurrentDir == Clean(cur)
        cleanWorkingDir == Clean(WorkingDir)
        parentDir       == Dir(cleanCurrentDir)
    IN  IF cleanCurrentDir = cleanWorkingDir THEN cur
        ELSE IF RelEscapes(Rel(cleanWorkingDir, parentDir)) THEN cleanWorkingDir
        ELSE parentDir

\* AppUI.enterDirectory: the new currentDir
enterDirectory(f, cur, dirName) ==
    LET fullPath == Join(cur, dirName)
    IN  IF fullPath \notin DOMAIN f THEN cur
        ELSE IF ~f[fullPath].isDir THEN cur
        ELSE IF RelEscapes(Rel(Clean(WorkingDir), Clean(fullPath))) THEN cur
        ELSE Clean(fullPath)

\* the names handed to enterDirectory
EnterArgs ==
    {<<"d">>, <<"c">>, <<"a">>, <<"..x">>, <<"..">>, <<"..", "o">>, <<"..", "..", "o">>}

\* no navigation yet
NoNav == [kind |-> "none", from |-> <<>>, target |-> <<>>]

\* an operation whose goroutine has not begun: state is "spawned", then
\* "running" while operation(ctx) executes, "returned" once it has
\* returned, "done" after the deferred function
NewOp == [state |-> "spawned", cancelled |-> FALSE]

\* calling ui.cancelFunc: cancels the context of the operation that set it
CallCancelFunc(u) ==
    IF u.cancelFunc # 0
    THEN [u EXCEPT !.ops[u.cancelFunc].cancelled = TRUE]
    ELSE u

\* the operations whose goroutine has not returned from operation(ctx)
StillRunning(u) ==
    {i \in 1..Len(u.ops) : u.ops[i].state \in {"spawned", "running"}}

\* NewAppUI: cancelFunc 0 is nil, missed holds the operations a press of
\* Cancel found running and left uncancelled
InitUI ==
    /\ ui = [built |-> TRUE, currentDir |-> WorkingDir, cancelFunc |-> 0,
             ops |-> <<>>, missed |-> {}, nav |-> NoNav]
    /\ fs = UITree
    /\ remote = <<>>
    /\ faults = [list |-> FALSE, keys |-> {}]
    /\ op = Idle
    /\ ctx = "active"
    /\ hist = NoHist
    /\ InitCipherIdle
    /\ InitMockIdle /\ InitCloudIdle /\ InitLogIdle /\ InitMenuIdle /\ InitSyncIdle

GoUpDirectory ==
    /\ ui' = [ui EXCEPT !.currentDir = goUpDirectory(ui.currentDir),
                 !.nav = [kind |-> "up", from |-> ui.currentDir,
                          target |-> Dir(Clean(ui.currentDir))]]
    /\ UNCHANGED <<engineVars, cipherVars, mock, cloud, logh, menu, sync>>

EnterDirectory(dirName) ==
    /\ ui' = [ui EXCEPT !.currentDir = enterDirectory(fs, ui.currentDir, dirName),
                 !.nav = [kind |-> "enter", from |-> ui.currentDir,
                          target |-> Join(ui.currentDir, dirName)]]
    /\ UNCHANGED <<engineVars, cipherVars, mock, cloud, logh, menu, sync>>

\* AppUI.runOperation up to the go statement
runOperation ==
    /\ Len(ui.ops) < MaxOps
    /\ LET u == CallCancelFunc(ui)
       IN  ui' = [u EXCEPT !.ops = Append(@, NewOp), !.cancelFunc = Len(ui.ops) + 1]
    /\ UNCHANGED <<engineVars, cipherVars, mock, cloud, logh, menu, sync>>

\* the goroutine calls operation(ctx)
OperationStart(i) ==
    /\ ui.ops[i].state = "spawned"
    /\ ui' = [ui EXCEPT !.ops[i].state = "running"]
    /\ UNCHANGED <<engineVars, cipherVars, mock, cloud, logh, menu, sync>>

\* operation(ctx) returns, cancelled or not
OperationReturn(i) ==
    /\ ui.ops[i].state = "running"
    /\ ui' = [ui EXCEPT !.ops[i].state = "returned"]
    /\ UNCHANGED <<engineVars, cipherVars, mock, cloud, logh, menu, sync>>

\* the goroutine's deferred function
OperationDeferred(i) ==
    /\ ui.ops[i].state = "returned"
    /\ ui' = [ui EXCEPT !.ops[i].state = "done", !.cancelFunc = 0]
    /\ UNCHANGED <<engineVars, cipherVars, mock, cloud, logh, menu, sync>>

\* the callback of the Cancel Operation button
CancelButton ==
    /\ LET u == CallCancelFunc(ui)
       IN  ui' = [u EXCEPT !.missed = @ \cup {i \in StillRunning(u) : ~u.ops[i].cancelled}]
    /\ UNCHANGED <<engineVars, cipherVars, mock, cloud, logh, menu, sync>>

NextUI ==
    \/ GoUpDirectory
    \/ \E d \in EnterArgs : EnterDirectory(d)
    \/ runOperation
    \/ \E i \in 1..Len(ui.ops) : OperationStart(i)
    \/ \E i \in 1..Len(ui.ops) : OperationReturn(i)
    \/ \E i \in 1..Len(ui.ops) : OperationDeferred(i)
    \/ CancelButton

SpecUI == InitUI /\ [][NextUI]_vars

(***************************************************************************)
(* pkg/appui UILogHandler: the lines kept for the log widget.  A line is   *)
(* <<g, n>>, the n-th record goroutine g handed to Handle.                 *)
(***************************************************************************)
\* goroutines that log, and Handle calls each of them makes
MaxLoggers == 2
MaxHandles == 2

\* the number of lines Handle keeps
KeepLines == 1000

\* a trim that keeps the oldest lines
KeepFirst(logs) ==
    IF Len(logs) > KeepLines THEN SubSeq(logs, 1, KeepLines) ELSE logs

\* if len(h.logs) > 1000 { h.logs = h.logs[len(h.logs)-1000:] }
KeepLast(logs) ==
    IF Len(logs) > KeepLines
    THEN SubSeq(logs, Len(logs) - KeepLines + 1, Len(logs))
    ELSE logs

\* the lines of k earlier records, handled one after the other
EarlierLines(k) == [i \in 1..k |-> <<0, i>>]

\* how many records the handler has handled before the goroutines start
EarlierCounts == {0, KeepLines - 1, KeepLines}

\* a goroutine that has not logged yet: rets are the values Handle returned
NoLogger == [pc |-> "idle", n |-> 0, rets |-> <<>>]

\* NewUILogHandler, then k records handled: handled is every line ever
\* appended, in the order of the appends
InitLog ==
    /\ logh \in {[built |-> TRUE, logs |-> EarlierLines(k),
                  handled |-> EarlierLines(k), mutex |-> FALSE,
                  procs |-> [g \in 1..MaxLoggers |-> NoLogger]] : k \in EarlierCounts}
    /\ InitEngineIdle /\ InitCipherIdle
    /\ InitMockIdle /\ InitCloudIdle /\ InitUIIdle /\ InitMenuIdle /\ InitSyncIdle

\* goroutine g calls Handle and reaches h.mutex.Lock()
HandleEnter(g) ==
    /\ logh.procs[g].pc = "idle"
    /\ logh.procs[g].n < MaxHandles
    /\ logh' = [logh EXCEPT !.procs[g].pc = "lock", !.procs[g].n = @ + 1]
    /\ UNCHANGED <<engineVars, cipherVars, mock, cloud, ui, menu, sync>>

\* h.mutex.Lock() returns
HandleLock(g) ==
    /\ logh.procs[g].pc = "lock"
    /\ TryLock(logh.mutex)
    /\ logh' = [logh EXCEPT !.mutex = TRUE, !.procs[g].pc = "held"]
    /\ UNCHANGED <<engineVars, cipherVars, mock, cloud, ui, menu, sync>>

\* the body of Handle, the deferred Unlock and return nil
Handle(g) ==
    /\ logh.procs[g].pc = "held"
    /\ LET logLine == <<g, logh.procs[g].n>>
       IN  logh' = [logh EXCEPT !.logs = KeepLast(Append(@, logLine)),
                       !.handled = Append(@, logLine),
                       !.mutex = FALSE,
                       !.procs[g].pc = "idle",
                       !.procs[g].rets = Append(@, "nil")]
    /\ UNCHANGED <<engineVars, cipherVars, mock, cloud, ui, menu, sync>>

NextLog ==
    \/ \E g \in 1..MaxLoggers : HandleEnter(g)
    \/ \E g \in 1..MaxLoggers : HandleLock(g)
    \/ \E g \in 1..MaxLoggers : Handle(g)

SpecLog == InitLog /\ [][NextLog]_vars

(***************************************************************************)
(* pkg/menu NewMenu: a slice is made for the menus and filled by index     *)
(* from the list of initializers.  The list of the source holds            *)
(* newFileMenu once; the model runs NewMenu for lists of any length up to  *)
(* MaxControllers.                                                         *)
(***************************************************************************)
\* longest list of initializers
MaxControllers == 40

\* the lists of initializers: newFileMenu, n times
ControllerLists == {[i \in 1..n |-> "newFileMenu"] : n \in 0..MaxControllers}

\* newFileMenu(): the menu "file" with the items open and save
newFileMenu == [label |-> "file", items |-> <<"open", "save">>]

\* make([]*fyne.Menu, 0, n): length 0, capacity n
MakeSlice(n) == [len |-> 0, cap |-> n, elems |-> <<>>]

\* ms[i] = m for the Go index i: panics unless i < len(ms)
SetIndex(ms, i, m) ==
    IF i < ms.len
    THEN [ok |-> TRUE, ms |-> [ms EXCEPT !.elems[i + 1] = m]]
    ELSE [ok |-> FALSE, ms |-> ms]

\* NewMenu is called: pc is the position in it, i the loop index
InitMenu ==
    /\ menu \in {[built |-> TRUE, conttrollers |-> cs, pc |-> "start",
                  ms |-> MakeSlice(0), i |-> 0, mainMenu |-> <<>>] :
                    cs \in ControllerLists}
    /\ InitEngineIdle /\ InitCipherIdle
    /\ InitMockIdle /\ InitCloudIdle /\ InitUIIdle /\ InitLogIdle /\ InitSyncIdle

\* ms := make([]*fyne.Menu, 0, len(conttrollers))
NewMenuMake ==
    /\ menu.pc = "start"
    /\ menu' = [menu EXCEPT !.pc = "loop", !.ms = MakeSlice(Len(menu.conttrollers))]
    /\ UNCHANGED <<engineVars, cipherVars, mock, cloud, ui, logh, sync>>

\* one iteration of the loop: ms[i] = c()
NewMenuLoop ==
    /\ menu.pc = "loop"
    /\ menu.i < Len(menu.conttrollers)
    /\ LET r == SetIndex(menu.ms, menu.i, newFileMenu)
       IN  menu' = [menu EXCEPT !.pc = IF r.ok THEN "loop" ELSE "panic",
                       !.ms = r.ms,
                       !.i = IF r.ok THEN @ + 1 ELSE @]
    /\ UNCHANGED <<engineVars, cipherVars, mock, cloud, ui, logh, sync>>

\* fyne.NewMainMenu(ms...) and return
NewMenuReturn ==
    /\ menu.pc = "loop"
    /\ menu.i >= Len(menu.conttrollers)
    /\ menu' = [menu EXCEPT !.pc = "returned", !.mainMenu = menu.ms.elems]
    /\ UNCHANGED <<engineVars, cipherVars, mock, cloud, ui, logh, sync>>

NextMenu ==
    \/ NewMenuMake
    \/ NewMenuLoop
    \/ NewMenuReturn

SpecMenu == InitMenu /\ [][NextMenu]_vars

(***************************************************************************)
(* Reconciliation: the engine is called several times in a row, SyncUpload *)
(* first, SyncDownload second, then either of them, MaxSyncCalls calls in  *)
(* all.  The store is healthy and no context is cancelled; the blobs of    *)
(* the store were all produced under the engine's key.                     *)
(***************************************************************************)
\* the calls of one reconciliation
MaxSyncCalls == 3

OwnStores ==
    {r \in RemoteStores : \A k \in DOMAIN r : Decrypt(EngineCipher, r[k]).ok}

\* done: the calls that returned, in order; clean: each of them returned nil
\* with no failure for any key; fs0, remote0: the tree and the store before
\* the first call
InitSync ==
    /\ fs \in LocalTrees
    /\ remote \in OwnStores
    /\ faults = [list |-> FALSE, keys |-> {}]
    /\ op = Idle
    /\ ctx = "active"
    /\ hist = NoHist
    /\ sync = [built |-> TRUE, done |-> <<>>, clean |-> TRUE,
               fs0 |-> fs, remote0 |-> remote]
    /\ InitCipherIdle
    /\ InitMockIdle /\ InitCloudIdle /\ InitUIIdle /\ InitLogIdle /\ InitMenuIdle

\* SyncUpload is called: as the first call, or as the further one
ReconcileUpload ==
    /\ Len(sync.done) = 0 \/ Len(sync.done) >= 2
    /\ SyncUpload("active")

\* SyncDownload is called: as the second call, or as the further one
ReconcileDownload ==
    /\ Len(sync.done) >= 1
    /\ SyncDownload("active")

\* the call has returned to its caller, which may call the engine again
ReconcileReturned ==
    /\ op.pc = "done"
    /\ Len(sync.done) < MaxSyncCalls - 1
    /\ sync' = [sync EXCEPT
          !.done = Append(@, op.name),
          !.clean = @ /\ op.err = "nil" /\ hist.failed = {}]
    /\ op' = Idle
    /\ hist' = NoHist
    /\ UNCHANGED <<fs, remote, faults, ctx, cipherVars, mock, cloud, ui, logh, menu>>

NextSync ==
    \/ ReconcileUpload
    \/ SyncUploadWalkFn
    \/ ReconcileDownload
    \/ SyncDownloadStep
    \/ ReconcileReturned

SpecSync == InitSync /\ [][NextSync]_vars

(***************************************************************************)
(* Properties.                                                             *)
(***************************************************************************)
\* C1: decrypting what Encrypt returned, with the same instance or with
\* another instance built from the same passphrase, succeeds and returns
\* exactly the plaintext that was encrypted (the empty one included).
C1_RoundTrip ==
    (dec.inst # 0 /\ enc.inst # 0 /\ dec.blob = enc.blob
       /\ ciphers[dec.inst].pass = ciphers[enc.inst].pass)
        => (dec.ok /\ dec.plain = enc.plain)

\* C1 witness: an empty plaintext encrypted by one instance was decrypted by
\* a second instance of the same passphrase
C1_Witness ==
    /\ dec.inst # 0
    /\ enc.inst # 0
    /\ dec.blob = enc.blob
    /\ dec.inst # enc.inst
    /\ ciphers[dec.inst].pass = ciphers[enc.inst].pass
    /\ enc.plain = <<>>
    /\ dec.ok

\* p is the working directory or lies below it
InsideWorkingDir(p) ==
    Len(p) >= Len(WorkingDir) /\ SubSeq(p, 1, Len(WorkingDir)) = WorkingDir

\* the regular files at or below root in tree f
RegularFilesUnder(f, root) ==
    {p \in DOMAIN f : /\ ~f[p].isDir
                      /\ Len(p) >= Len(root)
                      /\ SubSeq(p, 1, Len(root)) = root}

\* the key of a local file: its slash path relative to the working directory
KeyOf(p) == ToSlash(Rel(WorkingDir, p))

\* blob decrypts under the engine's key to exactly data
DecryptsTo(blob, data) ==
    LET r == Decrypt(EngineCipher, blob) IN r.ok /\ r.data = data

\* the call in progress ran to its end with no cancellation and no failure
CleanRun ==
    /\ op.pc = "done"
    /\ op.err = "nil"
    /\ ctx = "active"
    /\ hist.failed = {}

\* a regular file stands where key k needs a directory, or a directory where
\* it needs a file: downloading k to the working directory cannot succeed
Blocked(f, k) ==
    LET p == Join(WorkingDir, k)
    IN  IsDir(f, p) \/ \E q \in Prefixes(p) : IsFile(f, q)

\* k is an ordinary object key: a relative path with no empty, "." or ".."
\* segment
CleanKey(k) == \A i \in 1..Len(k) : k[i] \notin {"", ".", ".."}

\* C2: an uncancelled SyncDownload in which no key fails leaves, for every
\* remote key whose full relative path was no local file, the decrypted
\* plaintext of that key at workingDir/key; a nested key below a top-level
\* directory that exists locally is downloaded like any other.  Stated for
\* the ordinary keys whose download can succeed.
C2_DownloadsEveryMissingKey ==
    (op.name \in {"SyncDownload", "SyncDownloadTopLevel"} /\ CleanRun)
        => \A k \in DOMAIN hist.remote0 :
              (k \notin LocalFileSet(hist.fs0) /\ CleanKey(k) /\ ~Blocked(hist.fs0, k))
                 => /\ IsFile(fs, Join(WorkingDir, k))
                    /\ DecryptsTo(hist.remote0[k], fs[Join(WorkingDir, k)].data)

\* C3: SyncDownload leaves every local file whose exact relative path is a
\* remote key as it was when the call started.
C3_NoOverwrite ==
    op.name = "SyncDownload"
        => \A k \in DOMAIN hist.remote0 :
              k \in LocalFileSet(hist.fs0)
                 => /\ WorkingDir \o k \in DOMAIN fs
                    /\ fs[WorkingDir \o k] = hist.fs0[WorkingDir \o k]

\* C4: an uncancelled SyncUpload without failure has stored, for every local
\* regular file whose key was not a remote key, a blob under exactly that key
\* which decrypts to the file's content.
C4_UploadsEveryMissingFile ==
    (op.name = "SyncUpload" /\ CleanRun)
        => \A p \in RegularFilesUnder(hist.fs0, WorkingDir) :
              KeyOf(p) \notin DOMAIN hist.remote0
                 => /\ KeyOf(p) \in DOMAIN remote
                    /\ DecryptsTo(remote[KeyOf(p)], hist.fs0[p].data)

\* C5: at every point of a SyncUpload, every key that was in the store when
\* the call started still holds the bytes it held then.
C5_RemoteKeysUntouched ==
    op.name = "SyncUpload"
        => \A k \in DOMAIN hist.remote0 :
              k \in DOMAIN remote /\ remote[k] = hist.remote0[k]

\* C5 witness: a SyncUpload ended after uploading a local-only file while a
\* key held on both sides and a key held only remotely were in the store
C5_Witness ==
    /\ op.name = "SyncUpload"
    /\ op.pc = "done"
    /\ hist.calls # <<>>
    /\ <<"a">> \in DOMAIN hist.remote0
    /\ IsFile(hist.fs0, WorkingDir \o <<"a">>)
    /\ \E k \in DOMAIN hist.remote0 : k \notin LocalFileSet(hist.fs0)

\* C6: when EncryptAndUploadDirectory(ctx, root) returns nil on a store that
\* was empty, the store's keys are exactly the keys of the regular files at
\* or below root, and each object decrypts to its file's content.
C6_DirectoryUploaded ==
    (op.name = "EncryptAndUploadDirectory" /\ op.pc = "done" /\ op.err = "nil"
       /\ DOMAIN hist.remote0 = {})
        => /\ DOMAIN remote = {KeyOf(p) : p \in RegularFilesUnder(hist.fs0, op.arg)}
           /\ \A p \in RegularFilesUnder(hist.fs0, op.arg) :
                 DecryptsTo(remote[KeyOf(p)], hist.fs0[p].data)

\* C6 witness: the working directory with a top-level file and a nested file
\* was uploaded to an empty store
C6_Witness ==
    /\ op.name = "EncryptAndUploadDirectory"
    /\ op.pc = "done"
    /\ op.err = "nil"
    /\ DOMAIN hist.remote0 = {}
    /\ {<<"a">>, <<"d", "c">>} \subseteq DOMAIN remote

\* C7: whatever keys the store lists, everything SyncDownload and
\* DownloadSpecificFile create or write lies inside the working directory.
C7_WritesStayInside ==
    op.name \in {"SyncDownload", "DownloadSpecificFile"}
        => \A p \in hist.written : InsideWorkingDir(p)

\* C8: DeleteLocalFile of "../o/f" or of the absolute path "/o/f", both
\* outside the working directory, returns the outside-working-directory
\* error and removes nothing.
C8_DeleteOutsideRefused ==
    (op.name = "DeleteLocalFile" /\ op.arg \in {<<"..", "o", "f">>, <<"", "o", "f">>})
        => /\ op.err = "file is outside working directory"
           /\ fs = hist.fs0

\* C9: every key passed to the store's Upload is relative and has no ".."
\* segment.
C9_UploadKeysClean ==
    \A i \in 1..Len(hist.calls) :
        /\ Head(hist.calls[i]) # ""
        /\ \A j \in 1..Len(hist.calls[i]) : hist.calls[i][j] # ".."

\* the three calls of C10, started with a context that was already done
StartedCancelled ==
    /\ op.name \in {"EncryptAndUploadDirectory", "SyncUpload", "DownloadSpecificFile"}
    /\ hist.ctx0 # "active"

\* C10 as stated: each of the three calls, started with a cancelled or
\* expired context, returns the context's error and performs no upload and
\* no local write.
C10_CancelledBeforeStart ==
    StartedCancelled
        => /\ op.pc = "done" => op.err = CtxErr(hist.ctx0)
           /\ hist.calls = <<>>
           /\ hist.written = {}

\* C10 amended: the same, except that SyncUpload lists the store before it
\* looks at the context, so when the listing fails it returns the listing
\* error; in every case nothing is uploaded and nothing is written locally.
C10_CancelledBeforeStartAmended ==
    StartedCancelled
        => /\ op.pc = "done"
              => op.err = IF op.name = "SyncUpload" /\ faults.list
                          THEN "failed to list remote files"
                          ELSE CtxErr(hist.ctx0)
           /\ hist.calls = <<>>
           /\ hist.written = {}
           /\ remote = hist.remote0
           /\ fs = hist.fs0

\* C10 witness: a SyncUpload started with a cancelled context returned the
\* cancellation error although a local file was missing from the store
C10_Witness ==
    /\ op.name = "SyncUpload"
    /\ op.pc = "done"
    /\ hist.ctx0 = "canceled"
    /\ op.err = "context canceled"
    /\ \E p \in RegularFilesUnder(hist.fs0, WorkingDir) :
          KeyOf(p) \notin RemoteSet(DOMAIN hist.remote0)

\* C11: a SyncDownload started with a cancelled or expired context, whose
\* remote listing and local scan succeed, returns the context's error and
\* downloads nothing, whatever keys the store holds (none included).
C11_SyncDownloadCancelledBeforeStart ==
    (op.name = "SyncDownload" /\ op.pc = "done" /\ hist.ctx0 # "active"
       /\ ~faults.list /\ WorkingDir \in DOMAIN hist.fs0)
        => /\ op.err = CtxErr(hist.ctx0)
           /\ hist.started = <<>>
           /\ hist.written = {}
           /\ fs = hist.fs0

\* the three calls of C12, ended after their context was cancelled while
\* one file was being transferred, that transfer not having failed
CancelledInTransfer ==
    /\ op.name \in {"EncryptAndUploadDirectory", "SyncUpload", "SyncDownload"}
    /\ op.pc = "done"
    /\ hist.cancel.busy

\* the transfer of key k by the call in progress is complete: the store
\* holds a blob of the whole file, or the local file the whole plaintext
TransferComplete(k) ==
    IF op.name = "SyncDownload"
    THEN /\ IsFile(fs, Join(WorkingDir, k))
         /\ DecryptsTo(hist.remote0[k], fs[Join(WorkingDir, k)].data)
    ELSE /\ k \in DOMAIN remote
         /\ DecryptsTo(remote[k], hist.fs0[Join(WorkingDir, k)].data)

\* C12 as stated: when the context is cancelled during a transfer (which
\* does not fail), the transfer completes, no other transfer is started and
\* the call returns the cancellation error.
C12_CancelBetweenItems ==
    (CancelledInTransfer /\ hist.failed = {})
        => /\ TransferComplete(hist.started[hist.cancel.at])
           /\ Len(hist.started) = hist.cancel.at
           /\ op.err = CtxErr(ctx)

\* C12 amended: the transfer in progress completes unless it fails itself,
\* and no other transfer is started; the call returns the cancellation error
\* when the walk or the loop has another entry to visit after that
\* transfer, nil when the transfer was for the last entry, and
\* EncryptAndUploadDirectory returns the transfer's own error when it failed.
C12_CancelBetweenItemsAmended ==
    CancelledInTransfer
        => LET k == hist.started[hist.cancel.at]
           IN  /\ k \notin hist.failed => TransferComplete(k)
               /\ Len(hist.started) = hist.cancel.at
               /\ op.err = IF op.name = "EncryptAndUploadDirectory" /\ k \in hist.failed
                            THEN "failed to upload file"
                            ELSE IF hist.cancel.more THEN CtxErr(ctx) ELSE "nil"

\* C12 witness: a SyncUpload whose context was cancelled during the upload
\* of its first local-only file, with another one still to come, returned
\* the cancellation error with that one blob stored
C12_Witness ==
    /\ CancelledInTransfer
    /\ op.name = "SyncUpload"
    /\ hist.cancel.more
    /\ op.err = "context canceled"
    /\ hist.started = <<(<<"a">>)>>
    /\ TransferComplete(<<"a">>)
    /\ IsFile(hist.fs0, WorkingDir \o <<"d", "c">>)
    /\ <<"d", "c">> \notin DOMAIN remote

\* the remote keys that were no local file when the call started
MissingLocally == {k \in DOMAIN hist.remote0 : k \notin LocalFileSet(hist.fs0)}

\* C13: an uncancelled SyncDownload in which the download, the decryption
\* or the write of some missing key failed returns nil, has tried every
\* missing key, and has downloaded every missing key that did not fail.
C13_SyncDownloadFailSoft ==
    (op.name = "SyncDownload" /\ op.pc = "done" /\ ctx = "active"
       /\ hist.failed # {})
        => /\ op.err = "nil"
           /\ hist.failed \subseteq MissingLocally
           /\ {hist.started[i] : i \in 1..Len(hist.started)} = MissingLocally
           /\ \A k \in MissingLocally \ hist.failed :
                 /\ IsFile(fs, Join(WorkingDir, k))
                 /\ DecryptsTo(hist.remote0[k], fs[Join(WorkingDir, k)].data)

\* C13 witness: key a could not be downloaded or decrypted, and the nested
\* key d/b was downloaded all the same
C13_Witness ==
    /\ op.name = "SyncDownload"
    /\ op.pc = "done"
    /\ op.err = "nil"
    /\ hist.failed = {<<"a">>}
    /\ hist.started[1] = <<"a">>
    /\ IsFile(fs, WorkingDir \o <<"d", "b">>)
    /\ WorkingDir \o <<"d", "b">> \notin DOMAIN hist.fs0

\* C14: an uncancelled SyncUpload in which the upload of some local-only
\* file failed returns nil and has stored every other local file whose key
\* was not a remote key.
C14_SyncUploadFailSoft ==
    (op.name = "SyncUpload" /\ op.pc = "done" /\ ctx = "active"
       /\ hist.failed # {})
        => /\ op.err = "nil"
           /\ \A p \in RegularFilesUnder(hist.fs0, WorkingDir) :
                 (KeyOf(p) \notin DOMAIN hist.remote0 /\ KeyOf(p) \notin hist.failed)
                    => /\ KeyOf(p) \in DOMAIN remote
                       /\ DecryptsTo(remote[KeyOf(p)], hist.fs0[p].data)

\* C15: a SyncDownload or SyncUpload whose remote listing succeeded and
\* whose context was never cancelled returns nil and has considered every
\* key: each remote key was found locally or its download begun, each local
\* file was found in the remote set or its upload begun; a failure of the
\* local scan or walk does not end the call.
C15_OnlyCancellationEndsSync ==
    (op.name \in {"SyncDownload", "SyncUpload"} /\ op.pc = "done"
       /\ ~faults.list /\ ctx = "active")
        => /\ op.err = "nil"
           /\ LET begun == {hist.started[i] : i \in 1..Len(hist.started)}
              IN  IF op.name = "SyncDownload"
                  THEN begun = MissingLocally
                  ELSE begun = {KeyOf(p) : p \in RegularFilesUnder(hist.fs0, WorkingDir)}
                                  \ RemoteSet(DOMAIN hist.remote0)

\* a walk entry that is a regular file
IsFileEntry(e) == ~e.isDir /\ ~e.err

\* the keys of the regular files at or below root, in walk order
WalkFileKeys(f, root) ==
    LET files == SelectSeq(Walk(f, root), IsFileEntry)
    IN  [i \in 1..Len(files) |-> KeyOf(files[i].path)]

TooShort(b) == Len(b) < NonceSize + TagSize

\* b is c with exactly one byte changed
OneByteChanged(b, c) ==
    /\ Len(b) = Len(c)
    /\ Cardinality({i \in 1..Len(b) : b[i] # c[i]}) = 1

\* C17: Decrypt of an input that is empty, shorter than the nonce or too
\* short to carry a tag, and Decrypt of a blob returned by Encrypt with one
\* byte changed, by any instance, returns an error and no plaintext.
C17_DecryptRejectsInvalid ==
    (dec.inst # 0
       /\ (TooShort(dec.blob) \/ (enc.inst # 0 /\ OneByteChanged(dec.blob, enc.blob))))
        => (~dec.ok /\ dec.plain = <<>>)

\* C17 witness: the instance that encrypted a non-empty plaintext rejected
\* its own blob with one ciphertext byte changed
C17_Witness ==
    /\ dec.inst # 0
    /\ enc.inst = dec.inst
    /\ enc.plain # <<>>
    /\ OneByteChanged(dec.blob, enc.blob)
    /\ dec.blob[NonceSize + 1] # enc.blob[NonceSize + 1]
    /\ ~dec.ok

\* C18: a blob returned by Encrypt under one passphrase is rejected, with an
\* error and no plaintext, by Decrypt of an instance built from a different
\* passphrase.
C18_WrongPassphraseRejected ==
    (dec.inst # 0 /\ enc.inst # 0 /\ dec.blob = enc.blob
       /\ ciphers[dec.inst].pass # ciphers[enc.inst].pass)
        => (~dec.ok /\ dec.plain = <<>>)

\* C18 witness: a blob of a non-empty plaintext was rejected by an instance
\* of the other passphrase
C18_Witness ==
    /\ dec.inst # 0
    /\ enc.inst # 0
    /\ dec.blob = enc.blob
    /\ enc.plain # <<>>
    /\ ciphers[dec.inst].pass # ciphers[enc.inst].pass
    /\ ~dec.ok

\* a plaintext was encrypted twice under one key
EncryptedTwice ==
    /\ enc.inst # 0
    /\ enc.inst2 # 0
    /\ ciphers[enc.inst].ag.key = ciphers[enc.inst2].ag.key

IsBlobOf(blob, key, plain) ==
    /\ Len(blob) = Len(plain) + NonceSize + TagSize
    /\ SubSeq(blob, 1, NonceSize) \in Nonces
    /\ SubSeq(blob, NonceSize + 1, Len(blob))
          = Seal(key, SubSeq(blob, 1, NonceSize), plain)
    /\ Len(SubSeq(blob, NonceSize + 1, Len(blob))) = Len(plain) + TagSize

\* C20: what Encrypt returns is nonce, ciphertext and tag, len(p) + 28
\* bytes; and every object that EncryptAndUploadFile,
\* EncryptAndUploadDirectory or SyncUpload has stored is such a blob of the
\* file's content under the engine's key, never the content itself.
C20_StoredObjectsAreBlobs ==
    /\ enc.inst # 0 => IsBlobOf(enc.blob, ciphers[enc.inst].ag.key, enc.plain)
    /\ op.name \in {"EncryptAndUploadFile", "EncryptAndUploadDirectory", "SyncUpload"}
          => \A i \in 1..Len(hist.calls) :
                LET k == hist.calls[i]
                    plain == hist.fs0[Join(WorkingDir, k)].data
                IN  k \notin hist.failed
                       => /\ k \in DOMAIN remote
                          /\ IsBlobOf(remote[k], EngineCipher.key, plain)
                          /\ DecryptsTo(remote[k], plain)
                          /\ remote[k] # plain

\* C20 witness: SyncUpload stored the one-byte file a as a 29-byte blob and
\* the empty file d as a 28-byte blob
C20_Witness ==
    /\ op.name = "SyncUpload"
    /\ op.pc = "done"
    /\ hist.calls = <<(<<"a">>), (<<"d">>)>>
    /\ hist.failed = {}
    /\ Len(remote[<<"a">>]) = Len(DataX) + NonceSize + TagSize
    /\ Len(remote[<<"d">>]) = NonceSize + TagSize

(***************************************************************************)
(* The filesystem-rooted store.                                            *)
(***************************************************************************)
\* what the single caller's calls returned so far
MockRets == mock.procs[0].rets

\* call j of the history was a successful Upload of key k
UploadedAt(j, k) ==
    /\ MockRets[j].fn = "Upload"
    /\ MockRets[j].key = k
    /\ MockRets[j].ok

\* C21: once Delete(key) has returned, a Download of that key fails until the
\* key is uploaded again, and Delete itself returns no error.
C21_DeleteRemoves ==
    mock.mode = "calls" =>
        \A j \in 1..Len(MockRets) :
            MockRets[j].fn = "Delete" =>
                /\ MockRets[j].ok
                /\ \A k \in (j + 1)..Len(MockRets) :
                      (/\ MockRets[k].fn = "Download"
                       /\ MockRets[k].key = MockRets[j].key
                       /\ \A u \in (j + 1)..(k - 1) : ~UploadedAt(u, MockRets[j].key))
                          => ~MockRets[k].ok

\* C22: a List that follows nothing but successful Uploads returns, without
\* error and each once, exactly the uploaded keys that start with its prefix.
C22_ListReturnsUploaded ==
    mock.mode = "calls" =>
        \A j \in 1..Len(MockRets) :
            (/\ MockRets[j].fn = "List"
             /\ \A u \in 1..(j - 1) : MockRets[u].fn = "Upload" /\ MockRets[u].ok)
                => LET out == MockRets[j].out
                   IN  /\ MockRets[j].ok
                       /\ {out[x] : x \in 1..Len(out)}
                            = {MockRets[u].key : u \in 1..(j - 1)}
                                \cap {k \in MockKeys :
                                        MockRets[j].key = <<"">> \/ HasPrefix(k, MockRets[j].key)}
                       /\ \A x, y \in 1..Len(out) : out[x] = out[y] => x = y

\* C23: a Download returns the bytes of the last successful Upload of its
\* key, and fails when the key was never uploaded.
C23_DownloadAfterUpload ==
    mock.mode = "calls" =>
        \A j \in 1..Len(MockRets) :
            MockRets[j].fn = "Download" =>
                LET ups == {u \in 1..(j - 1) : UploadedAt(u, MockRets[j].key)}
                IN  IF ups = {} THEN ~MockRets[j].ok
                    ELSE /\ MockRets[j].ok
                         /\ MockRets[j].out
                              = MockRets[CHOOSE u \in ups : \A v \in ups : v <= u].data

\* C24: at most one goroutine is between Lock and Unlock; in the concurrent
\* run every Upload and Download succeeds, every Download returns the bytes
\* its goroutine uploaded, and the List made after all goroutines returned
\* holds the key of each of them.
C24_ConcurrentCallsSerialized ==
    /\ Cardinality({i \in DOMAIN mock.procs : mock.procs[i].pc = "held"}) <= 1
    /\ mock.mode = "workers" =>
          /\ \A i \in 1..mock.n : \A j \in 1..Len(mock.procs[i].rets) :
                LET r == mock.procs[i].rets[j]
                IN  r.ok /\ (r.fn = "Download" => r.out = WorkerData(i))
          /\ MockRets # <<>> =>
                /\ MockRets[1].ok
                /\ {MockRets[1].out[x] : x \in 1..Len(MockRets[1].out)}
                     = {WorkerKey(i) : i \in 1..mock.n}

\* C24 witness: the List after the run of MaxWorkers goroutines has returned
C24_Witness ==
    /\ mock.mode = "workers"
    /\ mock.n = MaxWorkers
    /\ mock.n >= 2
    /\ MockRets # <<>>
    /\ \A i \in 1..mock.n : Len(mock.procs[i].rets) = 2

(***************************************************************************)
(* The cloud client.                                                       *)
(***************************************************************************)
\* C25: whatever work directory is configured, a List("") returns exactly
\* the keys uploaded before it, as they were passed to Upload, and a
\* Download of an uploaded key returns the bytes last uploaded under it.
C25_WorkDirTransparent ==
    \A j \in 1..Len(cloud.rets) :
        LET r   == cloud.rets[j]
            ups == {u \in 1..(j - 1) : cloud.rets[u].fn = "Upload"}
        IN  /\ (r.fn = "List" /\ r.key = <<>>)
                  => r.keys = {cloud.rets[u].key : u \in ups}
            /\ r.fn = "Download" =>
                  LET mine == {u \in ups : cloud.rets[u].key = r.key}
                  IN  mine # {} =>
                         /\ r.ok
                         /\ r.out = cloud.rets[CHOOSE u \in mine : \A v \in mine : v <= u].data

(***************************************************************************)
(* The UI.                                                                 *)
(***************************************************************************)
\* C26: no press of Cancel leaves an operation that is still running with
\* its context uncancelled.
C26_CancelReachesRunningOperation == ui.missed = {}

\* C27: at most one operation started by runOperation is inside its engine
\* call at any time.
C27_OneEngineCallAtATime ==
    Cardinality({i \in 1..Len(ui.ops) : ui.ops[i].state = "running"}) <= 1

\* C28: the current directory is the working directory or below it; Up at
\* the working directory and an Enter whose target lies outside the working
\* directory leave the current directory as it was.
C28_NavigationStaysInside ==
    /\ InsideWorkingDir(ui.currentDir)
    /\ (ui.nav.kind = "up" /\ ui.nav.from = WorkingDir) => ui.currentDir = ui.nav.from
    /\ (ui.nav.kind = "enter" /\ ~InsideWorkingDir(ui.nav.target))
          => ui.currentDir = ui.nav.from

\* C28 witness: from a subdirectory, an Enter towards the existing directory
\* next to the working directory was refused
C28_Witness ==
    /\ ui.nav.kind = "enter"
    /\ ui.nav.from # WorkingDir
    /\ ui.nav.target = OutsideDir
    /\ IsDir(fs, ui.nav.target)
    /\ ui.currentDir = ui.nav.from

(***************************************************************************)
(* The log handler.                                                        *)
(***************************************************************************)
\* C29: the handler holds at most KeepLines lines, they are the last lines
\* handled in the order they were handled, and every Handle returned nil.
C29_LogKeepsMostRecent ==
    /\ Len(logh.logs) <= KeepLines
    /\ LET n == Len(logh.handled)
           k == IF n > KeepLines THEN KeepLines ELSE n
       IN  logh.logs = SubSeq(logh.handled, n - k + 1, n)
    /\ \A g \in 1..MaxLoggers : \A j \in 1..Len(logh.procs[g].rets) :
          logh.procs[g].rets[j] = "nil"

\* C29 witness: more than KeepLines lines were handled, the last of them by
\* two goroutines, and the oldest lines are gone
C29_Witness ==
    /\ Len(logh.handled) > KeepLines
    /\ Len(logh.logs) = KeepLines
    /\ logh.logs[1] # logh.handled[1]
    /\ \A g \in 1..2 : \E j \in 1..Len(logh.logs) : logh.logs[j][1] = g

(***************************************************************************)
(* Single downloads.                                                       *)
(***************************************************************************)
\* a directory stands at p, or a regular file where p needs a directory
BlockedPath(f, p) == IsDir(f, p) \/ \E q \in Prefixes(p) : IsFile(f, q)

\* the call was a single download, made with an active context, of a key the
\* store serves with a blob that authenticates, to a local path that can be
\* created
SingleDownloadCanSucceed ==
    /\ op.name \in {"DownloadAndDecryptFile", "DownloadSpecificFile"}
    /\ op.pc = "done"
    /\ hist.ctx0 = "active"
    /\ op.arg \in DOMAIN hist.remote0
    /\ op.arg \notin faults.keys
    /\ Decrypt(EngineCipher, hist.remote0[op.arg]).ok
    /\ ~BlockedPath(hist.fs0, op.dest)

DeletedInside ==
    /\ op.name = "DeleteLocalFile"
    /\ op.pc = "done"
    /\ InsideWorkingDir(Join(WorkingDir, op.arg))
    /\ Join(WorkingDir, op.arg) # WorkingDir

\* C31: DeleteLocalFile of an existing regular file inside the working
\* directory returns no error and removes exactly that file, leaving every
\* other local path and the remote store as they were; where nothing exists
\* at the path it returns an error and changes nothing.
C31_DeleteRemovesExactlyTheFile ==
    DeletedInside =>
        LET p == Join(WorkingDir, op.arg)
        IN  /\ IsFile(hist.fs0, p) =>
                  /\ op.err = "nil"
                  /\ fs = Drop(hist.fs0, p)
                  /\ remote = hist.remote0
            /\ p \notin DOMAIN hist.fs0 =>
                  /\ op.err # "nil"
                  /\ fs = hist.fs0
                  /\ remote = hist.remote0

\* C37: DeleteLocalFile never answers a relative path that cleans to a
\* location below the working directory with the outside-working-directory
\* error, whatever the name of the file.
C37_GuardRejectsOnlyOutside ==
    DeletedInside => op.err # "file is outside working directory"

(***************************************************************************)
(* Failures of the single transfers.                                       *)
(***************************************************************************)
\* the call was a single download, made with an active context, of a key
\* the store does not serve or whose blob does not authenticate
SingleDownloadMustFail ==
    /\ op.name \in {"DownloadAndDecryptFile", "DownloadSpecificFile"}
    /\ op.pc = "done"
    /\ hist.ctx0 = "active"
    /\ \/ op.arg \notin DOMAIN hist.remote0
       \/ op.arg \in faults.keys
       \/ ~Decrypt(EngineCipher, hist.remote0[op.arg]).ok

\* C32: when the store's Download fails or the blob does not authenticate,
\* DownloadAndDecryptFile returns the download or the decryption error and
\* the local file system is exactly as before: no directory created, no
\* file created or truncated.
C32_FailedDownloadLeavesNoTrace ==
    SingleDownloadMustFail =>
        /\ op.err \in {"failed to download file", "failed to decrypt file"}
        /\ fs = hist.fs0
        /\ hist.written = {}

\* C32 witness: DownloadSpecificFile of a, stored under another passphrase,
\* failed to decrypt while a local file a existed
C32_Witness ==
    /\ SingleDownloadMustFail
    /\ op.name = "DownloadSpecificFile"
    /\ op.arg = <<"a">>
    /\ op.arg \in DOMAIN hist.remote0
    /\ op.arg \notin faults.keys
    /\ op.err = "failed to decrypt file"
    /\ IsFile(hist.fs0, op.dest)

C34_NewOperationCancelsEarlier ==
    [][(ui.built /\ Len(ui'.ops) = Len(ui.ops) + 1) =>
          /\ \A i \in StillRunning(ui) : ui'.ops[i].cancelled
          /\ ~ui'.ops[Len(ui'.ops)].cancelled]_vars

(***************************************************************************)
(* The menu.                                                               *)
(***************************************************************************)
\* C38: NewMenu never indexes its slice out of range, and the main menu it
\* returns holds one menu for each initializer of the list.
C38_NewMenuBuildsEveryMenu ==
    /\ menu.pc # "panic"
    /\ menu.pc = "returned" => Len(menu.mainMenu) = Len(menu.conttrollers)
    /\ (menu.pc = "loop" /\ menu.i >= Len(menu.conttrollers))
          => menu.ms.len = Len(menu.conttrollers)

(***************************************************************************)
(* Direction of the transfers.                                             *)
(***************************************************************************)
DownloadOperations == {"SyncDownload", "DownloadSpecificFile"}
UploadOperations == {"SyncUpload", "EncryptAndUploadFile", "EncryptAndUploadDirectory"}

\* C36: while and after SyncDownload or DownloadSpecificFile runs, the remote
\* store is the one the call found; while and after SyncUpload,
\* EncryptAndUploadFile or EncryptAndUploadDirectory runs, the local tree is
\* the one the call found.
C36_TransfersAreOneWay ==
    /\ op.name \in DownloadOperations => remote = hist.remote0
    /\ op.name \in UploadOperations => fs = hist.fs0

\* a SyncDownload that has written local files, after a download of each
C36_Witness ==
    /\ op.name = "SyncDownload"
    /\ op.pc = "done"
    /\ op.err = "nil"
    /\ hist.written # {}
    /\ fs # hist.fs0
    /\ remote # <<>>

(***************************************************************************)
(* Reconciliation.                                                         *)
(***************************************************************************)
\* the keys of the regular files of the working directory
LocalKeys(f) == {KeyOf(p) : p \in RegularFilesUnder(f, WorkingDir)}

\* SyncUpload and then SyncDownload have both returned nil with no failure
\* for any key
Reconciled ==
    \/ /\ sync.done = <<"SyncUpload">>
       /\ sync.clean
       /\ op.name = "SyncDownload"
       /\ CleanRun
    \/ /\ Len(sync.done) >= 2
       /\ sync.clean

\* the further call has returned
FurtherCallDone == Len(sync.done) >= 2 /\ op.pc = "done"

\* C35: after SyncUpload and then SyncDownload ran to completion with no
\* failure for any key and no cancellation, the keys of the local regular
\* files are the keys of the store, and a further SyncUpload or SyncDownload
\* begins no transfer.
C35_ReconciliationConverges ==
    /\ Reconciled => LocalKeys(fs) = DOMAIN remote
    /\ (Reconciled /\ FurtherCallDone) => hist.started = <<>>

\* the same for a store whose keys are all ordinary ones
C35_ConvergesOnCleanKeys ==
    (\A k \in DOMAIN sync.remote0 : CleanKey(k)) => C35_ReconciliationConverges

\* a reconciliation of a store of ordinary keys that transferred in both
\* directions, followed by a further call
C35_CleanKeysWitness ==
    /\ Reconciled /\ FurtherCallDone
    /\ \A k \in DOMAIN sync.remote0 : CleanKey(k)
    /\ DOMAIN remote # DOMAIN sync.remote0
    /\ fs # sync.fs0

====
